---------------------------- MODULE Spec2Model ----------------------------
(***************************************************************************)
(* Model of the bleak characteristic decode engine:                        *)
(*   src/bleak/formatter.py  IEEE-11073 FLOAT / SFLOAT codec               *)
(*   src/bleak/utils.py      get_char_value and its helpers                *)
(*                                                                         *)
(* Conventions.                                                            *)
(*  - bytes objects are sequences of integers 0..255.                      *)
(*  - A Python call either returns or raises: Ok(v) / Raise(exception).    *)
(*  - A Python number x * 10^e is the record Num(x, e); numeric equality   *)
(*    is NumEq.  An encoder input `value` is the exact decimal             *)
(*    num / 10^dec (binary floating point rounding is not modelled).       *)
(*  - The key str(key) of an enumeration is the integer key itself.        *)
(***************************************************************************)
EXTENDS Integers, Sequences, FiniteSets, TLC

VARIABLES
    cop,        \* codec: name of the last codec call ("idle" before any)
    cin,        \* codec: its arguments
    cenc,       \* codec: outcome of the encode call (round trips keep it)
    cout,       \* codec: outcome of the call
    pc,         \* get_char_value: "idle", "called", "flags", "selected",
                \*                 "expanded", "done"
    characteristic,   \* get_char_value: characteristic (a CHAR_XML)
    blob,             \* get_char_value: value (bytes)
    rtn_flags,        \* get_char_value: rtn_flags
    \* the locals of _get_multiple_fields; None is <<>>, a dict d is <<d>>
    FLAGS,            \* _FLAGS
    REQS,             \* _REQS
    CTYPE_FLAG,       \* ctype_flag
    FIELDS_TO_READ,   \* _FIELDS_TO_READ
    CTYPE_GLOBAL,     \* ctype_global
    REFERENCE_FIELDS, \* _REFERENCE_FIELDS
    result      \* what the call returned or raised

codec_vars == <<cop, cin, cenc, cout>>

engine_vars == <<pc, characteristic, blob, rtn_flags, FLAGS, REQS, CTYPE_FLAG,
                 FIELDS_TO_READ, CTYPE_GLOBAL, REFERENCE_FIELDS, result>>

vars == <<codec_vars, engine_vars>>

----------------------------------------------------------------------------
(* Outcomes of a call *)

Ok(v) == [ok |-> TRUE, val |-> v]

Raise(e) == [ok |-> FALSE, err |-> e]

NoCall == [ok |-> FALSE, err |-> "not called"]

----------------------------------------------------------------------------
(* Numbers *)

RECURSIVE Pow(_, _)
Pow(b, n) == IF n = 0 THEN 1 ELSE b * Pow(b, n - 1)

Abs(n) == IF n < 0 THEN -n ELSE n

\* int(x) for the rational n / d, d > 0: truncation toward zero
TruncDiv(n, d) == IF n >= 0 THEN n \div d ELSE -((-n) \div d)

Num(m, e) == [kind |-> "number", mantissa |-> m, exponent |-> e]

Label(s) == [kind |-> "label", label |-> s]

RECURSIVE Normal(_, _)
Normal(m, e) ==
    IF m = 0 THEN <<0, 0>>
    ELSE IF m % 10 = 0 THEN Normal(m \div 10, e + 1)
    ELSE <<m, e>>

\* a and b are numbers and denote the same real
NumEq(a, b) ==
    /\ a.kind = "number"
    /\ b.kind = "number"
    /\ Normal(a.mantissa, a.exponent) = Normal(b.mantissa, b.exponent)

----------------------------------------------------------------------------
(* bytes <-> int *)

\* n-th byte (little endian) of the two's-complement image of x
ByteOf(x, n) == (x \div Pow(256, n)) % 256

\* int.to_bytes(length, 'little', signed=True)
to_bytes_signed(x, length) ==
    IF x < -(Pow(2, 8 * length - 1)) \/ x >= Pow(2, 8 * length - 1)
    THEN Raise("OverflowError")
    ELSE Ok([i \in 1..length |-> ByteOf(x, i - 1)])

\* struct: one signed byte, 'b'
pack_b(x) ==
    IF x < -128 \/ x > 127 THEN Raise("struct.error")
    ELSE Ok(<<x % 256>>)

unpack_b(byte) == IF byte >= 128 THEN byte - 256 ELSE byte

\* bit k of the (infinite two's-complement) integer x
BitAt(x, k) == (x \div Pow(2, k)) % 2


----------------------------------------------------------------------------
(* formatter.py: IEEE-11073 FLOAT (24-bit mantissa, 8-bit exponent) *)

\* int(value * (10 ** precision)) for value = num / 10^dec
ScaledMantissa(value, precision) ==
    IF value.num = 0 THEN 0
    ELSE IF precision >= value.dec
         THEN value.num * Pow(10, precision - value.dec)
         ELSE TruncDiv(value.num, Pow(10, value.dec - precision))

\* variant: the exponent byte holds precision instead of -precision
encode_FLOAT_positive_exponent(value, precision) ==
    LET mant == to_bytes_signed(ScaledMantissa(value, precision), 3)
        expo == pack_b(precision)
    IN  IF ~mant.ok THEN mant
        ELSE IF ~expo.ok THEN expo
        ELSE Ok(mant.val \o expo.val)

encode_FLOAT_ieee11073(value, precision) ==
    LET mant == to_bytes_signed(ScaledMantissa(value, precision), 3)
        expo == pack_b(-precision)
    IN  IF ~mant.ok THEN mant
        ELSE IF ~expo.ok THEN expo
        ELSE Ok(mant.val \o expo.val)

special_values_FLOAT ==
    (Pow(2, 23) - 2    :> "+INFINITY")
 @@ (Pow(2, 23) - 1    :> "NaN")
 @@ (-Pow(2, 23)       :> "NRes")
 @@ (-(Pow(2, 23) - 1) :> "Reserved for future use")
 @@ (-(Pow(2, 23) - 2) :> "-INFINITY")

\* struct.unpack('i', b): four bytes, little endian, signed
unpack_i(b) == b[1] + 256 * b[2] + 65536 * b[3] + unpack_b(b[4]) * Pow(2, 24)

\* variant: the reserved codes are recognised at every exponent
decode_FLOAT_any_exponent(value) ==
    IF Len(value) # 4 THEN Raise("struct.error")
    ELSE
    LET sign     == unpack_b(value[3])
        exponent == unpack_b(value[4])
        mantissa == unpack_i(SubSeq(value, 1, 3)
                             \o (IF sign >= 0 THEN <<0>> ELSE <<255>>))
    IN  IF mantissa \in DOMAIN special_values_FLOAT
        THEN Ok(Label(special_values_FLOAT[mantissa]))
        ELSE Ok(Num(mantissa, exponent))

decode_FLOAT_ieee11073(value) ==
    IF Len(value) # 4 THEN Raise("struct.error")
    ELSE
    LET sign     == unpack_b(value[3])
        exponent == unpack_b(value[4])
        _mantissa_bytes ==
            IF sign >= 0 THEN SubSeq(value, 1, 3) \o <<0>>
                         ELSE SubSeq(value, 1, 3) \o <<255>>
        mantissa == unpack_i(_mantissa_bytes)
    IN  IF exponent = 0 /\ mantissa \in DOMAIN special_values_FLOAT
        THEN Ok(Label(special_values_FLOAT[mantissa]))
        ELSE Ok(Num(mantissa, exponent))

----------------------------------------------------------------------------
(* formatter.py: IEEE-11073 SFLOAT (12-bit mantissa, 4-bit exponent) *)

twos_comp(val, bits) ==
    LET v == IF BitAt(val, bits - 1) # 0 THEN val - Pow(2, bits) ELSE val
    IN  v % Pow(2, bits)

encode_SFLOAT_ieee11073(value, precision) ==
    LET val == ScaledMantissa(value, precision)
    IN  IF ~(val < Pow(2, 11)) THEN Raise("AssertionError")
        ELSE to_bytes_signed(precision * Pow(2, 12) + twos_comp(val, 12), 2)

twos_comp_dec(val, bits) ==
    IF BitAt(val, bits - 1) # 0 THEN val - Pow(2, bits) ELSE val

special_values_SFLOAT ==
    (Pow(2, 11) - 2    :> "+INFINITY")
 @@ (Pow(2, 11) - 1    :> "NaN")
 @@ (-Pow(2, 11)       :> "NRes")
 @@ (-(Pow(2, 11) - 1) :> "Reserved for future use")
 @@ (-(Pow(2, 11) - 2) :> "-INFINITY")

decode_SFLOAT_ieee11073(value) ==
    IF Len(value) < 2 THEN Raise("IndexError")
    ELSE
    LET _bitmask_mant  == Pow(2, 12) - 1
        dec            == value[2] * 256 + value[1]
        exponent       == dec \div Pow(2, 12)
        _mantissa_uint == dec % (_bitmask_mant + 1)
        mantissa       == twos_comp_dec(_mantissa_uint, 12)
    IN  IF exponent = 0 /\ mantissa \in DOMAIN special_values_SFLOAT
        THEN Ok(Label(special_values_SFLOAT[mantissa]))
        ELSE Ok(Num(mantissa, -exponent))

----------------------------------------------------------------------------
(* utils.py: struct in native mode (no byte-order prefix), as on x86-64   *)
(* Linux: little endian, every item aligned to its own size.              *)

\* a format string is the sequence of its characters
Digits == {"0", "1", "2", "3", "4", "5", "6", "7", "8", "9"}

DigitValue(c) ==
    CASE c = "0" -> 0 [] c = "1" -> 1 [] c = "2" -> 2 [] c = "3" -> 3
      [] c = "4" -> 4 [] c = "5" -> 5 [] c = "6" -> 6 [] c = "7" -> 7
      [] c = "8" -> 8 [] c = "9" -> 9

StructCodes == {"b", "B", "?", "h", "H", "i", "I", "q", "Q", "f", "d"}

StructSize(c) ==
    CASE c \in {"b", "B", "?"} -> 1
      [] c \in {"h", "H"}      -> 2
      [] c \in {"i", "I", "f"} -> 4
      [] c \in {"q", "Q", "d"} -> 8

\* the items [n, code] of a format, or one item of code "error" for a bad
\* format
RECURSIVE StructItems(_, _, _)
StructItems(fmt, count, items) ==
    IF fmt = <<>>
    THEN IF count = -1 THEN items ELSE <<[n |-> 0, code |-> "error"]>>
    ELSE LET c == Head(fmt)
         IN  IF c \in Digits
             THEN StructItems(Tail(fmt),
                              (IF count = -1 THEN 0 ELSE 10 * count)
                                  + DigitValue(c),
                              items)
             ELSE IF c \in StructCodes
             THEN StructItems(Tail(fmt), -1,
                              Append(items, [n    |-> IF count = -1 THEN 1
                                                      ELSE count,
                                             code |-> c]))
             ELSE <<[n |-> 0, code |-> "error"]>>

BadFormat(fmt) ==
    StructItems(fmt, -1, <<>>) = <<[n |-> 0, code |-> "error"]>>

AlignUp(off, size) == ((off + size - 1) \div size) * size

RECURSIVE ItemsSize(_, _)
ItemsSize(items, off) ==
    IF items = <<>> THEN off
    ELSE LET it == Head(items)
         IN  ItemsSize(Tail(items),
                       AlignUp(off, StructSize(it.code))
                           + it.n * StructSize(it.code))

\* struct.calcsize(fmt), for a well-formed fmt
struct_calcsize(fmt) == ItemsSize(StructItems(fmt, -1, <<>>), 0)

\* the unsigned little-endian integer held by bytes bb[from+1 .. from+size]
RECURSIVE LEUnsigned(_, _, _)
LEUnsigned(bb, from, size) ==
    IF size = 0 THEN 0
    ELSE bb[from + 1] + 256 * LEUnsigned(bb, from + 1, size - 1)

FloatValue(bytes) == [kind |-> "float", bytes |-> bytes]

\* one item of code c read at offset off (0-based)
StructRead(c, bb, off) ==
    LET size == StructSize(c)
        u    == LEUnsigned(bb, off, size)
    IN  CASE c \in {"B", "H", "I", "Q"} -> u
          [] c \in {"b", "h", "i", "q"} ->
                IF bb[off + size] >= 128
                THEN LEUnsigned(bb, off, size - 1)
                         + (bb[off + size] - 256) * Pow(256, size - 1)
                ELSE u
          [] c = "?" -> (u # 0)
          [] c \in {"f", "d"} -> FloatValue(SubSeq(bb, off + 1, off + size))

RECURSIVE ItemsRead(_, _, _, _)
ItemsRead(items, bb, off, values) ==
    IF items = <<>> THEN values
    ELSE LET it   == Head(items)
             size == StructSize(it.code)
             at   == AlignUp(off, size)
         IN  IF it.n = 0
             THEN ItemsRead(Tail(items), bb, at, values)
             ELSE ItemsRead(<<[n |-> it.n - 1, code |-> it.code]>>
                                \o Tail(items),
                            bb, at + size,
                            Append(values, StructRead(it.code, bb, at)))

\* struct.unpack(fmt, bb): the tuple of values, or struct.error
struct_unpack(fmt, bb) ==
    IF BadFormat(fmt) THEN Raise("struct.error")
    ELSE IF Len(bb) # struct_calcsize(fmt) THEN Raise("struct.error")
    ELSE Ok(ItemsRead(StructItems(fmt, -1, <<>>), bb, 0, <<>>))

----------------------------------------------------------------------------
(* formatter.py: class SuperStruct *)

len_F == 4
len_SF == 2
spec_formats == {"F", "S"}

\* _get_overall_size: the loop over the characters of fmt_string and the
\* step after it; struct.calcsize of a run raises struct.error when the run
\* is not a format
RECURSIVE OverallSizeLoop(_, _, _)
OverallSizeLoop(fmt_string, intermediate_fmt_string, size_value) ==
    IF fmt_string = <<>>
    THEN IF intermediate_fmt_string # <<>>
         THEN IF BadFormat(intermediate_fmt_string)
              THEN Raise("struct.error")
              ELSE Ok(size_value + struct_calcsize(intermediate_fmt_string))
         ELSE Ok(size_value)
    ELSE LET s == Head(fmt_string)
         IN  IF s \in spec_formats
             THEN IF /\ intermediate_fmt_string # <<>>
                     /\ BadFormat(intermediate_fmt_string)
                  THEN Raise("struct.error")
                  ELSE OverallSizeLoop(
                           Tail(fmt_string), <<>>,
                           size_value
                             + (IF intermediate_fmt_string # <<>>
                                THEN struct_calcsize(intermediate_fmt_string)
                                ELSE 0)
                             + (IF s = "F" THEN len_F ELSE len_SF))
             ELSE OverallSizeLoop(Tail(fmt_string),
                                  Append(intermediate_fmt_string, s),
                                  size_value)

_get_overall_size(fmt_string) == OverallSizeLoop(fmt_string, <<>>, 0)

calcsize(fmt) == _get_overall_size(fmt)

\* bb[from : to] of Python: the slice is cut at the end of bb
Slice(bb, from, to) ==
    SubSeq(bb, from + 1, IF to > Len(bb) THEN Len(bb) ELSE to)

\* the loop of _get_all_index_bytes that forgets the run after the last
\* 'F' or 'S'
RECURSIVE IndexBytesLoopNoTail(_, _, _, _, _)
IndexBytesLoopNoTail(fmt_string, bb, intermediate_fmt_string, index, values) ==
    IF fmt_string = <<>> THEN Ok(values)
    ELSE LET s   == Head(fmt_string)
             n   == IF intermediate_fmt_string # <<>>
                    THEN struct_calcsize(intermediate_fmt_string) ELSE 0
             val == IF intermediate_fmt_string # <<>>
                    THEN struct_unpack(intermediate_fmt_string,
                                       Slice(bb, index, index + n))
                    ELSE Ok(<<>>)
             at  == index + n
             dec == IF s = "F"
                    THEN decode_FLOAT_ieee11073(Slice(bb, at, at + len_F))
                    ELSE decode_SFLOAT_ieee11073(Slice(bb, at, at + len_SF))
         IN  IF s \in spec_formats
             THEN IF ~val.ok THEN val
                  ELSE IF ~dec.ok THEN dec
                  ELSE IndexBytesLoopNoTail(
                           Tail(fmt_string), bb, <<>>,
                           at + (IF s = "F" THEN len_F ELSE len_SF),
                           values \o val.val \o <<dec.val>>)
             ELSE IndexBytesLoopNoTail(Tail(fmt_string), bb,
                                       Append(intermediate_fmt_string, s),
                                       index, values)

\* the loop of _get_all_index_bytes and the step after it
RECURSIVE IndexBytesLoop(_, _, _, _, _)
IndexBytesLoop(fmt_string, bb, intermediate_fmt_string, index, values) ==
    IF fmt_string = <<>>
    THEN IF intermediate_fmt_string # <<>>
         THEN LET val == struct_unpack(
                             intermediate_fmt_string,
                             Slice(bb, index,
                                   index + struct_calcsize(
                                               intermediate_fmt_string)))
              IN  IF val.ok THEN Ok(values \o val.val) ELSE val
         ELSE Ok(values)
    ELSE LET s   == Head(fmt_string)
             n   == IF intermediate_fmt_string # <<>>
                    THEN struct_calcsize(intermediate_fmt_string) ELSE 0
             val == IF intermediate_fmt_string # <<>>
                    THEN struct_unpack(intermediate_fmt_string,
                                       Slice(bb, index, index + n))
                    ELSE Ok(<<>>)
             at  == index + n
             dec == IF s = "F"
                    THEN decode_FLOAT_ieee11073(Slice(bb, at, at + len_F))
                    ELSE decode_SFLOAT_ieee11073(Slice(bb, at, at + len_SF))
         IN  IF s \in spec_formats
             THEN IF ~val.ok THEN val
                  ELSE IF ~dec.ok THEN dec
                  ELSE IndexBytesLoop(
                           Tail(fmt_string), bb, <<>>,
                           at + (IF s = "F" THEN len_F ELSE len_SF),
                           values \o val.val \o <<dec.val>>)
             ELSE IndexBytesLoop(Tail(fmt_string), bb,
                                 Append(intermediate_fmt_string, s),
                                 index, values)

_get_all_index_bytes(fmt_string, bb) ==
    LET expected_size == _get_overall_size(fmt_string)
    IN  IF ~expected_size.ok THEN expected_size
        ELSE IF Len(bb) # expected_size.val THEN Raise("AssertionError")
        ELSE IndexBytesLoop(fmt_string, bb, <<>>, 0, <<>>)

unpack(fmt, bb) ==
    IF \E i \in DOMAIN fmt : fmt[i] \in spec_formats
    THEN _get_all_index_bytes(fmt, bb)
    ELSE struct_unpack(fmt, bb)

----------------------------------------------------------------------------
(* utils.py: DATA_FMT, the unpack format of each primitive encoding *)

DATA_FMT(format) ==
    CASE format \in {"sint8"} -> <<"b">>
      [] format \in {"uint8", "8bit", "nibble", "2bit", "4bit"} -> <<"B">>
      [] format \in {"sint16", "16bit"} -> <<"h">>
      [] format \in {"uint16", "uint12"} -> <<"H">>
      [] format \in {"uint24", "uint32", "32bit", "24bit", "sint24"} -> <<"I">>
      [] format \in {"sint32"} -> <<"i">>
      [] format \in {"uint40", "uint48"} -> <<"Q">>
      [] format \in {"utf8s"} -> <<"u", "t", "f", "8">>
      [] format \in {"float64"} -> <<"d">>
      [] format \in {"variable", "gatt_uuid", "characteristic"} -> <<"X">>
      [] format \in {"boolean"} -> <<"?">>
      [] format \in {"FLOAT", "SFLOAT"} -> <<"f">>
      [] format \in {"uint128"} -> <<"2", "Q">>

----------------------------------------------------------------------------
(* utils.py: the metadata of a characteristic (CHAR_XML.fields).           *)
(* A Python dict is the sequence of its items [key, value] in insertion    *)
(* order; an optional key of a field is <<>> (absent) or <<v>> (present).  *)

Keys(d) == { d[i].key : i \in 1..Len(d) }

DictGet(d, k) == d[CHOOSE i \in 1..Len(d) : d[i].key = k].value

DictSet(d, k, v) ==
    IF k \in Keys(d)
    THEN [i \in 1..Len(d) |-> IF d[i].key = k THEN [key |-> k, value |-> v]
                              ELSE d[i]]
    ELSE Append(d, [key |-> k, value |-> v])

Values(d) == { d[i].value : i \in 1..Len(d) }

\* a field with a primitive encoding and nothing else
PlainField(name, format, reqs) ==
    [name |-> name, Format |-> <<format>>, Ctype |-> <<DATA_FMT(format)>>,
     Requirement |-> reqs,
     BitField |-> <<>>, Enumerations |-> <<>>, Reference |-> <<>>,
     Multiplier |-> <<>>, DecimalExponent |-> <<>>, BinaryExponent |-> <<>>,
     Quantity |-> <<>>, Unit |-> <<>>, Symbol |-> <<>>]

\* a field without a primitive encoding
BareField(name, reqs) ==
    [PlainField(name, "uint8", reqs) EXCEPT !.Format = <<>>, !.Ctype = <<>>]

\* a sub-range of a BitField; Requires is the empty function when absent
Bit(name, index, size, enums, requires) ==
    [name |-> name, index |-> index, size |-> size,
     Enumerations |-> enums, Requires |-> requires]

\* char.fields[name], for a name the characteristic declares
FieldNames(char) == { char.fields[i].name : i \in 1..Len(char.fields) }

FieldOf(char, name) ==
    char.fields[CHOOSE i \in 1..Len(char.fields) : char.fields[i].name = name]

----------------------------------------------------------------------------
(* utils.py: bit extractor *)

RECURSIVE Rep(_, _)
Rep(c, n) == IF n <= 0 THEN <<>> ELSE <<c>> \o Rep(c, n - 1)

\* eval("0b" + digits): a SyntaxError without digits
RECURSIVE BinaryValue(_, _)
BinaryValue(digits, acc) ==
    IF digits = <<>> THEN acc
    ELSE BinaryValue(Tail(digits),
                     2 * acc + (IF Head(digits) = "1" THEN 1 ELSE 0))

\* a & b for b >= 0
RECURSIVE BitAnd(_, _)
BitAnd(a, b) ==
    IF b = 0 THEN 0
    ELSE (a % 2) * (b % 2) + 2 * BitAnd(a \div 2, b \div 2)

BitmaskDigits(total_size, index, size) ==
    Rep("0", total_size - (index + size)) \o Rep("1", size) \o Rep("0", index)

\* variant: the masked bits are not shifted down to bit 0
BitmaskKeyInPlace(val, total_size, index, size) ==
    BitAnd(val, BinaryValue(BitmaskDigits(total_size, index, size), 0))

\* the key of sub-range (index, size) of val, as both extractors compute it
BitmaskKey(val, total_size, index, size) ==
    LET _bitmask == BinaryValue(BitmaskDigits(total_size, index, size), 0)
    IN  BitAnd(val, _bitmask) \div Pow(2, index)

_autobitmask(val, total_size, index, size, keymap) ==
    IF BitmaskDigits(total_size, index, size) = <<>>
    THEN Raise("SyntaxError")
    ELSE LET key == BitmaskKey(val, total_size, index, size)
         IN  IF key \in DOMAIN keymap THEN Ok(keymap[key])
             ELSE Raise("KeyError")

\* <<tag>> for a mapped key, <<>> for Python's False
_autobitmask_req(val, total_size, index, size, keymap) ==
    IF BitmaskDigits(total_size, index, size) = <<>>
    THEN Raise("SyntaxError")
    ELSE LET key == BitmaskKey(val, total_size, index, size)
         IN  IF key \in DOMAIN keymap THEN Ok(<<keymap[key]>>)
             ELSE Ok(<<>>)

RECURSIVE SumSizes(_)
SumSizes(bitfield) ==
    IF bitfield = <<>> THEN 0
    ELSE Head(bitfield).size + SumSizes(Tail(bitfield))

\* the inner loop of _autoformat: one label per sub-range
RECURSIVE FormatBits(_, _, _, _)
FormatBits(bits, val, total_size, acc) ==
    IF bits = <<>> THEN Ok(acc)
    ELSE LET bitf == Head(bits)
             r    == _autobitmask(val, total_size, bitf.index, bitf.size,
                                  bitf.Enumerations)
         IN  IF ~r.ok THEN r
             ELSE FormatBits(Tail(bits), val, total_size,
                             DictSet(acc, bitf.name, r.val))

\* the inner loop of _autoformat_reqs: sub-ranges with a Requires map only
RECURSIVE FormatBitReqs(_, _, _, _)
FormatBitReqs(bits, val, total_size, acc) ==
    IF bits = <<>> THEN Ok(acc)
    ELSE LET bitf == Head(bits)
         IN  IF DOMAIN bitf.Requires = {}
             THEN FormatBitReqs(Tail(bits), val, total_size, acc)
             ELSE LET r == _autobitmask_req(val, total_size, bitf.index,
                                            bitf.size, bitf.Requires)
                  IN  IF ~r.ok THEN r
                      ELSE FormatBitReqs(Tail(bits), val, total_size,
                                         DictSet(acc, bitf.name, r.val))

\* the loop over char.fields of _autoformat / _autoformat_reqs
RECURSIVE FormatFields(_, _, _, _)
FormatFields(fields, val, reqs, acc) ==
    IF fields = <<>> THEN Ok(acc)
    ELSE LET f == Head(fields)
         IN  IF f.Ctype = <<>> \/ f.BitField = <<>>
             THEN FormatFields(Tail(fields), val, reqs, acc)
             ELSE LET bits == f.BitField[1]
                      r    == IF reqs
                              THEN FormatBitReqs(bits, val, SumSizes(bits),
                                                 <<>>)
                              ELSE FormatBits(bits, val, SumSizes(bits), <<>>)
                  IN  IF ~r.ok THEN r
                      ELSE FormatFields(Tail(fields), val, reqs,
                                        DictSet(acc, f.name, r.val))

\* field_to_unpack is <<>> (None) or <<name>>
_autoformat(char, val, field_to_unpack) ==
    IF field_to_unpack = <<>>
    THEN FormatFields(char.fields, val, FALSE, <<>>)
    ELSE FormatFields(<<FieldOf(char, field_to_unpack[1])>>, val, FALSE, <<>>)

_autoformat_reqs(char, val) == FormatFields(char.fields, val, TRUE, <<>>)

\* list(d.values())[0]
FirstValue(d) == IF d = <<>> THEN Raise("IndexError") ELSE Ok(d[1].value)

_get_req(char_field) == char_field.Requirement

----------------------------------------------------------------------------
(* utils.py: the values of a decode *)

\* Python's None, a dict result, the list [_FIELDS_VALS, _FLAGS]
None == [kind |-> "None"]

DictResult(d) == [kind |-> "dict", fields |-> d]

ListResult(d, flags) == [kind |-> "list", fields |-> d, flags |-> flags]

StrValue(bytes) == [kind |-> "str", bytes |-> bytes]

\* `(data,) = struct.unpack(ctype, val)`
UnpackOne(ctype, bb) ==
    LET r == struct_unpack(ctype, bb)
    IN  IF ~r.ok THEN r
        ELSE IF Len(r.val) # 1 THEN Raise("ValueError")
        ELSE Ok(r.val[1])

\* bytes.decode("utf8"); the modelled inputs are ASCII
_unpack_data(ctype, data) ==
    IF ctype = <<"u", "t", "f", "8">>
    THEN IF \E i \in 1..Len(data) : data[i] >= 128
         THEN Raise("UnicodeDecodeError")
         ELSE Ok(StrValue(data))
    ELSE UnpackOne(ctype, data)

\* formatted_value: raw * Multiplier * 10^DecimalExponent * 2^BinaryExponent,
\* each factor applied if declared; kept as n * 10^dec * 2^bin
ScaledValue(raw, f) ==
    [n   |-> IF f.Multiplier # <<>> THEN raw * f.Multiplier[1] ELSE raw,
     dec |-> IF f.DecimalExponent # <<>> THEN f.DecimalExponent[1] ELSE 0,
     bin |-> IF f.BinaryExponent # <<>> THEN f.BinaryExponent[1] ELSE 0]

\* _FIELDS_VALS[field]: Quantity, Unit, Symbol of f, and the Value
Entry(f, value) ==
    [Quantity |-> f.Quantity, Unit |-> f.Unit, Symbol |-> f.Symbol,
     Value |-> <<value>>]

EmptyEntry ==
    [Quantity |-> <<>>, Unit |-> <<>>, Symbol |-> <<>>, Value |-> <<>>]

----------------------------------------------------------------------------
(* utils.py: _get_single_field *)

SingleField(f, char, val) ==
    IF f.BitField # <<>>
    THEN LET raw_data == UnpackOne(f.Ctype[1], val)
         IN  IF ~raw_data.ok THEN raw_data
             ELSE LET labels == _autoformat(char, raw_data.val, <<>>)
                  IN  IF ~labels.ok THEN labels
                      ELSE LET data == FirstValue(labels.val)
                           IN  IF ~data.ok THEN data
                               ELSE Ok(DictResult(
                                      <<[key   |-> f.name,
                                         value |-> [EmptyEntry EXCEPT
                                                    !.Value = <<data.val>>]]>>))
    ELSE LET data == IF f.Enumerations # <<>>
                     THEN UnpackOne(f.Ctype[1], val)
                     ELSE _unpack_data(f.Ctype[1], val)
         IN  IF ~data.ok THEN data
             ELSE IF /\ f.Enumerations # <<>>
                     /\ data.val \in DOMAIN f.Enumerations[1]
             THEN Ok(DictResult(
                    <<[key   |-> f.name,
                       value |-> [EmptyEntry EXCEPT
                                  !.Value = <<f.Enumerations[1][data.val]>>]]>>))
             ELSE Ok(DictResult(
                    <<[key   |-> f.name,
                       value |-> Entry(f, ScaledValue(data.val, f))]>>))

RECURSIVE SingleFieldLoop(_, _, _)
SingleFieldLoop(fields, char, val) ==
    IF fields = <<>> THEN Ok(None)
    ELSE IF Head(fields).Ctype = <<>>
    THEN SingleFieldLoop(Tail(fields), char, val)
    ELSE SingleField(Head(fields), char, val)

_get_single_field(char, val) == SingleFieldLoop(char.fields, char, val)

----------------------------------------------------------------------------
(* utils.py: _get_multiple_fields, lines 630-642: the Flags field *)

Truthy(opt) == opt # <<>> /\ opt[1] # <<>>

NoFlags == [_FLAGS |-> <<>>, _REQS |-> <<>>, ctype_flag |-> <<>>]

DecodeFlags(char, val) ==
    IF "Flags" \notin FieldNames(char) THEN Ok(NoFlags)
    ELSE LET flags == FieldOf(char, "Flags")
         IN  IF flags.Ctype = <<>> THEN Ok(NoFlags)
             ELSE IF flags.BitField = <<>>
             THEN Ok([NoFlags EXCEPT !.ctype_flag = flags.Ctype])
             ELSE IF BadFormat(flags.Ctype[1]) THEN Raise("struct.error")
             ELSE
             LET ctype_flag == flags.Ctype[1]
                 size       == struct_calcsize(ctype_flag)
                 raw_data   == UnpackOne(ctype_flag,
                                   SubSeq(val, 1, IF size < Len(val) THEN size
                                                  ELSE Len(val)))
             IN  IF ~raw_data.ok THEN raw_data
                 ELSE
                 LET labels == _autoformat(char, raw_data.val, <<>>)
                     first  == IF labels.ok THEN FirstValue(labels.val)
                               ELSE labels
                     reqs   == _autoformat_reqs(char, raw_data.val)
                     firstr == IF reqs.ok THEN FirstValue(reqs.val) ELSE reqs
                 IN  IF ~first.ok THEN first
                     ELSE IF ~firstr.ok THEN firstr
                     ELSE Ok([_FLAGS     |-> <<first.val>>,
                              _REQS      |-> <<firstr.val>>,
                              ctype_flag |-> <<ctype_flag>>])

----------------------------------------------------------------------------
(* utils.py: _get_multiple_fields, lines 650-665 and 774-789: selection *)

\* the selection rule if all() of no tag were False
ReadFieldTagged(field_req, _REQS) ==
    IF \E i \in 1..Len(field_req) : field_req[i] = "Mandatory" THEN Ok(TRUE)
    ELSE IF _REQS = <<>> THEN Raise("AttributeError")
    ELSE Ok(/\ field_req # <<>>
            /\ \A i \in 1..Len(field_req) :
                   <<field_req[i]>> \in Values(_REQS[1]))

\* `"Mandatory" in field_req`, else `all([req in _REQS.values() ...])`
ReadField(field_req, _REQS) ==
    IF \E i \in 1..Len(field_req) : field_req[i] = "Mandatory" THEN Ok(TRUE)
    ELSE IF field_req = <<>> THEN Ok(TRUE)
    ELSE IF _REQS = <<>> THEN Raise("AttributeError")
    ELSE Ok(\A i \in 1..Len(field_req) :
                <<field_req[i]>> \in Values(_REQS[1]))

RECURSIVE SelectLoop(_, _, _)
SelectLoop(fields, _REQS, _FIELDS_TO_READ) ==
    IF fields = <<>> THEN Ok(_FIELDS_TO_READ)
    ELSE LET f == Head(fields)
         IN  IF f.name = "Flags"
             THEN SelectLoop(Tail(fields), _REQS, _FIELDS_TO_READ)
             ELSE LET r == ReadField(_get_req(f), _REQS)
                  IN  IF ~r.ok THEN r
                      ELSE SelectLoop(Tail(fields), _REQS,
                                      IF r.val
                                      THEN Append(_FIELDS_TO_READ, f.name)
                                      ELSE _FIELDS_TO_READ)

SelectFields(char, _REQS) == SelectLoop(char.fields, _REQS, <<>>)

----------------------------------------------------------------------------
(* utils.py: _get_multiple_fields, lines 666-696 and 791-821: the global   *)
(* unpack format and the Reference fields                                  *)

\* the fields of a referenced definition: its names, its metadata, its codes
RefNames(fields) == [i \in 1..Len(fields) |-> fields[i].name]

RECURSIVE RefMetadata(_, _)
RefMetadata(fields, _REFERENCE_FIELDS) ==
    IF fields = <<>> THEN _REFERENCE_FIELDS
    ELSE RefMetadata(Tail(fields),
                     DictSet(_REFERENCE_FIELDS, Head(fields).name,
                             Head(fields)))

RECURSIVE RefCtypes(_)
RefCtypes(fields) ==
    IF fields = <<>> THEN <<>>
    ELSE (IF Head(fields).Ctype # <<>> THEN Head(fields).Ctype[1] ELSE <<>>)
         \o RefCtypes(Tail(fields))

\* _FIELDS_TO_READ.index(field), pop, insert the reversed list at the index
Substitute(_FIELDS_TO_READ, field, _LIST_REFERENCES) ==
    LET char_index == CHOOSE i \in 1..Len(_FIELDS_TO_READ) :
                         /\ _FIELDS_TO_READ[i] = field
                         /\ \A j \in 1..(i - 1) : _FIELDS_TO_READ[j] # field
    IN  SubSeq(_FIELDS_TO_READ, 1, char_index - 1)
        \o _LIST_REFERENCES
        \o SubSeq(_FIELDS_TO_READ, char_index + 1, Len(_FIELDS_TO_READ))

\* the loop over copy_FIELDS_TO_READ; registry(name) is get_xml_char(name)
RECURSIVE ExpandLoop(_, _, _, _)
ExpandLoop(copy, char, registry, acc) ==
    IF copy = <<>> THEN Ok(acc)
    ELSE
    LET field == Head(copy)
        f     == FieldOf(char, field)
        ctype == acc.ctype_global
                     \o (IF f.Ctype # <<>> THEN f.Ctype[1] ELSE <<>>)
    IN  IF f.Reference = <<>>
        THEN ExpandLoop(Tail(copy), char, registry,
                        [acc EXCEPT !.ctype_global = ctype])
        ELSE IF f.Reference[1] \notin DOMAIN registry
        THEN Raise("FileNotFoundError")
        ELSE
        LET reference_char == registry[f.Reference[1]]
        IN  ExpandLoop(Tail(copy), char, registry,
                [_FIELDS_TO_READ   |->
                     Substitute(acc._FIELDS_TO_READ, field,
                                RefNames(reference_char.fields)),
                 ctype_global      |->
                     ctype \o RefCtypes(reference_char.fields),
                 _REFERENCE_FIELDS |->
                     RefMetadata(reference_char.fields,
                                 acc._REFERENCE_FIELDS)])

\* the expansion with a second pass that expands the Reference fields found
\* in the referenced definitions
ExpandReferencesAgain(char, registry, _FIELDS_TO_READ, ctype_start) ==
    LET r == ExpandLoop(_FIELDS_TO_READ, char, registry,
                        [_FIELDS_TO_READ   |-> _FIELDS_TO_READ,
                         ctype_global      |-> ctype_start,
                         _REFERENCE_FIELDS |-> <<>>])
    IN  IF ~r.ok THEN r
        ELSE LET refs   == r.val._REFERENCE_FIELDS
                 nested == [name   |-> "nested",
                            fields |-> [i \in 1..Len(refs) |-> refs[i].value]]
                 again(n) == /\ n \in Keys(refs)
                             /\ DictGet(refs, n).Reference # <<>>
             IN  ExpandLoop(SelectSeq(r.val._FIELDS_TO_READ, again), nested,
                            registry, r.val)

ExpandReferences(char, registry, _FIELDS_TO_READ, ctype_start) ==
    ExpandLoop(_FIELDS_TO_READ, char, registry,
               [_FIELDS_TO_READ   |-> _FIELDS_TO_READ,
                ctype_global      |-> ctype_start,
                _REFERENCE_FIELDS |-> <<>>])

----------------------------------------------------------------------------
(* utils.py: _get_multiple_fields, lines 698-769 and 823-883: unpack and   *)
(* format                                                                  *)

\* def _complete_bytes(self, bb): two required positional parameters
_complete_bytes(args) ==
    IF Len(args) # 2 THEN Raise("TypeError")
    ELSE LET bb == args[2]
         IN  Ok(IF Len(bb) % 2 = 0 THEN bb ELSE <<0>> \o bb)

\* dict(zip(_FIELDS_TO_READ, data))
RECURSIVE ZipDict(_, _, _)
ZipDict(names, data, acc) ==
    IF names = <<>> \/ data = <<>> THEN acc
    ELSE ZipDict(Tail(names), Tail(data), DictSet(acc, Head(names), Head(data)))

\* the scaled value as the integer Python holds, when it is one
ScaledInt(v) == v.n * Pow(10, v.dec) * Pow(2, v.bin)

\* lines 725-728 (Flags branch only): a field with a BitField is decoded
\* from formatted_value
BitFieldValue(char, field, v) ==
    IF v.dec < 0 \/ v.bin < 0 THEN Raise("TypeError")
    ELSE LET labels == _autoformat(char, ScaledInt(v), <<field>>)
         IN  IF ~labels.ok THEN labels ELSE FirstValue(labels.val)

RECURSIVE FormatLoop(_, _, _, _, _, _)
FormatLoop(names, char, _RAW_VALS, _REFERENCE_FIELDS, flags_branch, acc) ==
    IF names = <<>> THEN Ok(acc)
    ELSE
    LET field == Head(names)
        own   == field \in FieldNames(char)
    IN  IF ~own /\ _REFERENCE_FIELDS = <<>>
        THEN FormatLoop(Tail(names), char, _RAW_VALS, _REFERENCE_FIELDS,
                        flags_branch, DictSet(acc, field, EmptyEntry))
        ELSE IF field \notin Keys(_RAW_VALS) THEN Raise("KeyError")
        ELSE
        LET f      == IF own THEN FieldOf(char, field)
                      ELSE DictGet(_REFERENCE_FIELDS, field)
            scaled == ScaledValue(DictGet(_RAW_VALS, field), f)
            value  == IF own /\ flags_branch /\ f.BitField # <<>>
                      THEN BitFieldValue(char, field, scaled)
                      ELSE Ok(scaled)
        IN  IF ~value.ok THEN value
            ELSE FormatLoop(Tail(names), char, _RAW_VALS, _REFERENCE_FIELDS,
                            flags_branch,
                            DictSet(acc, field, Entry(f, value.val)))

\* lines 698-769: the Flags branch
UnpackWithFlags(char, val, _FIELDS_TO_READ, ctype_global, _REFERENCE_FIELDS) ==
    LET padded == _complete_bytes(<<val>>)
    IN  IF ~padded.ok THEN padded
        ELSE
        LET unpacked == struct_unpack(ctype_global, padded.val)
        IN  IF ~unpacked.ok THEN unpacked
            ELSE IF unpacked.val = <<>> THEN Raise("ValueError")
            ELSE FormatLoop(_FIELDS_TO_READ, char,
                            ZipDict(_FIELDS_TO_READ, Tail(unpacked.val), <<>>),
                            _REFERENCE_FIELDS, TRUE, <<>>)

\* lines 823-883: the branch without Flags
UnpackWithoutFlags(char, val, _FIELDS_TO_READ, ctype_global, _REFERENCE_FIELDS) ==
    LET unpacked == struct_unpack(ctype_global, val)
    IN  IF ~unpacked.ok THEN unpacked
        ELSE FormatLoop(_FIELDS_TO_READ, char,
                        ZipDict(_FIELDS_TO_READ, unpacked.val, <<>>),
                        _REFERENCE_FIELDS, FALSE, <<>>)

\* lines 766-769 and 880-883
ReturnValue(_FIELDS_VALS, _FLAGS, rtn) ==
    IF ~rtn THEN DictResult(_FIELDS_VALS)
    ELSE ListResult(_FIELDS_VALS, _FLAGS)

----------------------------------------------------------------------------
(* Inputs of get_char_value: characteristic definitions and byte blobs *)

\* a multi-field definition declares at most MaxFields fields besides Flags
MaxFields == 2

\* blobs of up to MaxShort bytes take every sampled byte at every position
MaxShort == 3

\* longer blobs, up to MaxLong bytes, follow one pattern
MaxLong == 25

\* Flags: bit 0 set supplies tag "T", bit 1 set supplies tag "U"
FlagsField ==
    [PlainField("Flags", "uint8", <<"Mandatory">>) EXCEPT
        !.BitField = << <<Bit("Bit0", 0, 1, (0 :> "no T") @@ (1 :> "T present"),
                              (1 :> "T")),
                          Bit("Bit1", 1, 1, (0 :> "no U") @@ (1 :> "U present"),
                              (1 :> "U"))>> >>]

FieldA ==
    [PlainField("A", "uint8", <<"Mandatory">>) EXCEPT
        !.Multiplier = <<10>>, !.Quantity = <<"length">>,
        !.Unit = <<"metre">>, !.Symbol = <<"m">>]

FieldB == PlainField("B", "uint8", <<"T">>)

FieldC == PlainField("C", "uint16", <<"T", "U">>)

FieldD == PlainField("D", "uint8", <<>>)

FieldR == [BareField("R", <<"Mandatory">>) EXCEPT !.Reference = <<"X">>]

FieldU == PlainField("U", "uint128", <<"Mandatory">>)

FieldN == BareField("N", <<"Mandatory">>)

\* a BitField of two bits; the second one has no label for key 1
FieldE ==
    [PlainField("E", "uint8", <<"Mandatory">>) EXCEPT
        !.BitField = << <<Bit("Lo", 0, 1, (0 :> "off") @@ (1 :> "on"), <<>>),
                          Bit("Hi", 1, 1, (0 :> "low"), <<>>)>> >>,
        !.Multiplier = <<2>>]

\* an enumerated value; only 1 has a label
FieldG ==
    [PlainField("G", "uint8", <<"Mandatory">>) EXCEPT
        !.Enumerations = <<(1 :> "one")>>]

FieldPool ==
    {FieldA, FieldB, FieldC, FieldD, FieldR, FieldU, FieldN, FieldE, FieldG}

\* the definition "X" that R refers to; one of its fields is named like A
FieldX1 ==
    [PlainField("X1", "uint8", <<>>) EXCEPT
        !.DecimalExponent = <<2>>, !.Quantity = <<"time">>,
        !.Unit = <<"second">>, !.Symbol = <<"s">>]

FieldX2 == PlainField("X2", "uint8", <<>>)

FieldXA == [PlainField("A", "uint8", <<>>) EXCEPT !.BinaryExponent = <<1>>]

CharX == [name |-> "X", fields |-> <<FieldX1, FieldXA, FieldX2>>]

\* a definition "S" whose Reference field names S itself
FieldRS == [BareField("R", <<"Mandatory">>) EXCEPT !.Reference = <<"S">>]

CharS == [name |-> "S", fields |-> <<FieldRS, FieldD>>]

\* two definitions "P" and "Q" that refer to each other
FieldRQ == [BareField("RQ", <<"Mandatory">>) EXCEPT !.Reference = <<"Q">>]

FieldRP == [BareField("RP", <<"Mandatory">>) EXCEPT !.Reference = <<"P">>]

CharP == [name |-> "P", fields |-> <<FieldRQ, FieldD>>]

CharQ == [name |-> "Q", fields |-> <<FieldG, FieldRP>>]

\* get_xml_char: the definitions that can be loaded by name
Registry ==
    ("X" :> CharX) @@ ("S" :> CharS) @@ ("P" :> CharP) @@ ("Q" :> CharQ)

FieldSeqs(n) ==
    { s \in [1..n -> FieldPool] :
        \A i, j \in 1..n : i # j => s[i].name # s[j].name }

Catalog ==
    UNION { { [name |-> "Test", fields |-> s] : s \in FieldSeqs(n) }
            \cup { [name |-> "Test", fields |-> <<FlagsField>> \o s] :
                   s \in FieldSeqs(n) } :
            n \in 1..MaxFields }

FlagSamples == 0..3

ByteSamples == {1, 2}

ShortBlobs ==
    {<<>>} \cup
    UNION { { <<b>> \o s : b \in FlagSamples, s \in [1..(n - 1) -> ByteSamples] } :
            n \in 1..MaxShort }

\* the two low bytes of every 8-byte word are non-zero
LongBlob(n) ==
    [i \in 1..n |-> IF (i - 1) % 8 < 2 THEN 1 + ((i - 1) % 3) ELSE 0]

Blobs == ShortBlobs \cup { LongBlob(n) : n \in (MaxShort + 1)..MaxLong }

----------------------------------------------------------------------------
(* get_char_value, step by step *)

Idle ==
    /\ pc = "idle"
    /\ characteristic = <<>>
    /\ blob = <<>>
    /\ rtn_flags = FALSE
    /\ FLAGS = <<>>
    /\ REQS = <<>>
    /\ CTYPE_FLAG = <<>>
    /\ FIELDS_TO_READ = <<>>
    /\ CTYPE_GLOBAL = <<>>
    /\ REFERENCE_FIELDS = <<>>
    /\ result = NoCall

Init == Idle /\ cop = "idle" /\ cin = <<>> /\ cenc = NoCall /\ cout = NoCall

\* get_char_value(value, characteristic, rtn_flags) is called
Call ==
    /\ pc = "idle"
    /\ \E c \in Catalog, b \in Blobs, r \in BOOLEAN :
        /\ characteristic' = c
        /\ blob' = b
        /\ rtn_flags' = r
    /\ pc' = "called"
    /\ UNCHANGED <<FLAGS, REQS, CTYPE_FLAG, FIELDS_TO_READ, CTYPE_GLOBAL,
                   REFERENCE_FIELDS, result, codec_vars>>

\* lines 912-914: exactly one field
GetSingleField ==
    /\ pc = "called"
    /\ Len(characteristic.fields) = 1
    /\ result' = _get_single_field(characteristic, blob)
    /\ pc' = "done"
    /\ UNCHANGED <<characteristic, blob, rtn_flags, FLAGS, REQS, CTYPE_FLAG,
                   FIELDS_TO_READ, CTYPE_GLOBAL, REFERENCE_FIELDS,
                   codec_vars>>

\* lines 630-642
GetFlags ==
    /\ pc = "called"
    /\ Len(characteristic.fields) # 1
    /\ \E r \in {DecodeFlags(characteristic, blob)} :
           IF r.ok
           THEN /\ FLAGS' = r.val._FLAGS
                /\ REQS' = r.val._REQS
                /\ CTYPE_FLAG' = r.val.ctype_flag
                /\ pc' = "flags"
                /\ UNCHANGED result
           ELSE /\ result' = r
                /\ pc' = "done"
                /\ UNCHANGED <<FLAGS, REQS, CTYPE_FLAG>>
    /\ UNCHANGED <<characteristic, blob, rtn_flags, FIELDS_TO_READ, CTYPE_GLOBAL,
                   REFERENCE_FIELDS, codec_vars>>

\* lines 650-665 (Flags branch) and 774-789 (no Flags)
Select ==
    /\ pc = "flags"
    /\ \E r \in {SelectFields(characteristic, REQS)} :
           IF r.ok
           THEN /\ FIELDS_TO_READ' = r.val
                /\ pc' = "selected"
                /\ UNCHANGED result
           ELSE /\ result' = r
                /\ pc' = "done"
                /\ UNCHANGED FIELDS_TO_READ
    /\ UNCHANGED <<characteristic, blob, rtn_flags, FLAGS, REQS, CTYPE_FLAG,
                   CTYPE_GLOBAL, REFERENCE_FIELDS, codec_vars>>

\* lines 666-696 with the pop and the insert of lines 693-696 applied to the
\* field list of the definition instead of the local list _FIELDS_TO_READ
ExpandInPlace ==
    /\ pc = "selected"
    /\ IF FIELDS_TO_READ = <<>>
       THEN /\ result' = Ok(None)
            /\ pc' = "done"
            /\ UNCHANGED <<characteristic, FIELDS_TO_READ, CTYPE_GLOBAL,
                           REFERENCE_FIELDS>>
       ELSE \E r \in {ExpandReferences(characteristic, Registry,
                            FIELDS_TO_READ,
                            IF Truthy(FLAGS) THEN CTYPE_FLAG[1] ELSE <<>>)} :
                IF r.ok
                THEN /\ FIELDS_TO_READ' = r.val._FIELDS_TO_READ
                     /\ CTYPE_GLOBAL' = r.val.ctype_global
                     /\ REFERENCE_FIELDS' = r.val._REFERENCE_FIELDS
                     /\ characteristic' =
                            [characteristic EXCEPT !.fields =
                                SelectSeq(@, LAMBDA f : f.Reference = <<>>)]
                     /\ pc' = "expanded"
                     /\ UNCHANGED result
                ELSE /\ result' = r
                     /\ pc' = "done"
                     /\ UNCHANGED <<characteristic, FIELDS_TO_READ,
                                    CTYPE_GLOBAL, REFERENCE_FIELDS>>
    /\ UNCHANGED <<blob, rtn_flags, FLAGS, REQS, CTYPE_FLAG, codec_vars>>

\* lines 666-696 and 791-821; without a field to read the function ends
\* and returns None
Expand ==
    /\ pc = "selected"
    /\ IF FIELDS_TO_READ = <<>>
       THEN /\ result' = Ok(None)
            /\ pc' = "done"
            /\ UNCHANGED <<FIELDS_TO_READ, CTYPE_GLOBAL, REFERENCE_FIELDS>>
       ELSE \E r \in {ExpandReferences(characteristic, Registry,
                            FIELDS_TO_READ,
                            IF Truthy(FLAGS) THEN CTYPE_FLAG[1] ELSE <<>>)} :
                IF r.ok
                THEN /\ FIELDS_TO_READ' = r.val._FIELDS_TO_READ
                     /\ CTYPE_GLOBAL' = r.val.ctype_global
                     /\ REFERENCE_FIELDS' = r.val._REFERENCE_FIELDS
                     /\ pc' = "expanded"
                     /\ UNCHANGED result
                ELSE /\ result' = r
                     /\ pc' = "done"
                     /\ UNCHANGED <<FIELDS_TO_READ, CTYPE_GLOBAL,
                                    REFERENCE_FIELDS>>
    /\ UNCHANGED <<characteristic, blob, rtn_flags, FLAGS, REQS, CTYPE_FLAG,
                   codec_vars>>

\* lines 698-769 and 823-883
Unpack ==
    /\ pc = "expanded"
    /\ \E r \in {IF Truthy(FLAGS)
                 THEN UnpackWithFlags(characteristic, blob, FIELDS_TO_READ,
                                      CTYPE_GLOBAL, REFERENCE_FIELDS)
                 ELSE UnpackWithoutFlags(characteristic, blob, FIELDS_TO_READ,
                                         CTYPE_GLOBAL, REFERENCE_FIELDS)} :
           result' = IF r.ok THEN Ok(ReturnValue(r.val, FLAGS, rtn_flags))
                     ELSE r
    /\ pc' = "done"
    /\ UNCHANGED <<characteristic, blob, rtn_flags, FLAGS, REQS, CTYPE_FLAG,
                   FIELDS_TO_READ, CTYPE_GLOBAL, REFERENCE_FIELDS,
                   codec_vars>>

\* the call has returned or raised; its locals are gone
Return ==
    /\ pc = "done"
    /\ pc' = "idle"
    /\ characteristic' = <<>>
    /\ blob' = <<>>
    /\ rtn_flags' = FALSE
    /\ FLAGS' = <<>>
    /\ REQS' = <<>>
    /\ CTYPE_FLAG' = <<>>
    /\ FIELDS_TO_READ' = <<>>
    /\ CTYPE_GLOBAL' = <<>>
    /\ REFERENCE_FIELDS' = <<>>
    /\ result' = NoCall
    /\ UNCHANGED codec_vars

Next ==
    \/ Call
    \/ GetSingleField
    \/ GetFlags
    \/ Select
    \/ Expand
    \/ Unpack
    \/ Return

Spec == Init /\ [][Next]_vars

----------------------------------------------------------------------------
(* Repeated calls: a caller keeps one definition object and decodes the same
   bytes with it twice, with other decode calls in between.  The engine works
   on the caller's object itself (Python passes the reference), so what the
   engine holds in characteristic when the call ends is what the caller holds
   afterwards.  Referenced definitions are built anew from their XML file by
   every get_xml_char call (line 418); Registry is what those files hold.
     cin   the caller's arguments, with the definition as it is now
     cenc  a copy of the definition taken before the first call
     cout  what the first call returned or raised                          *)

\* one call that returns a label, one that expands a Reference, one that
\* fails
OtherCalls ==
    { [value |-> <<1>>, characteristic |-> [name |-> "Other", fields |-> <<FieldG>>], rtn_flags |-> FALSE],
      [value |-> <<1, 2, 0, 0>>, characteristic |-> [name |-> "Other", fields |-> <<FieldR, FieldD>>], rtn_flags |-> FALSE],
      [value |-> <<1, 2>>, characteristic |-> [name |-> "Other", fields |-> <<FlagsField, FieldA>>], rtn_flags |-> TRUE] }

FirstCall ==
    /\ pc = "idle"
    /\ cop = "idle"
    /\ \E c \in Catalog, b \in Blobs, r \in BOOLEAN :
        /\ characteristic' = c
        /\ blob' = b
        /\ rtn_flags' = r
        /\ cin' = [value |-> b, characteristic |-> c, rtn_flags |-> r]
        /\ cenc' = c
    /\ cop' = "first"
    /\ pc' = "called"
    /\ UNCHANGED <<FLAGS, REQS, CTYPE_FLAG, FIELDS_TO_READ, CTYPE_GLOBAL,
                   REFERENCE_FIELDS, result, cout>>

\* the first call ends: the caller keeps its outcome
Keep ==
    /\ pc = "done"
    /\ cop = "first"
    /\ cout' = result
    /\ cin' = [cin EXCEPT !.characteristic = characteristic]
    /\ cop' = "kept"
    /\ pc' = "idle"
    /\ characteristic' = <<>>
    /\ blob' = <<>>
    /\ rtn_flags' = FALSE
    /\ FLAGS' = <<>>
    /\ REQS' = <<>>
    /\ CTYPE_FLAG' = <<>>
    /\ FIELDS_TO_READ' = <<>>
    /\ CTYPE_GLOBAL' = <<>>
    /\ REFERENCE_FIELDS' = <<>>
    /\ result' = NoCall
    /\ UNCHANGED cenc

\* some other decode call, on another definition
OtherCall ==
    /\ pc = "idle"
    /\ cop = "kept"
    /\ \E a \in OtherCalls :
        /\ characteristic' = a.characteristic
        /\ blob' = a.value
        /\ rtn_flags' = a.rtn_flags
    /\ cop' = "other"
    /\ pc' = "called"
    /\ UNCHANGED <<FLAGS, REQS, CTYPE_FLAG, FIELDS_TO_READ, CTYPE_GLOBAL,
                   REFERENCE_FIELDS, result, cin, cenc, cout>>

\* the same call again, with the caller's definition object as it is now
Repeat ==
    /\ pc = "idle"
    /\ cop \in {"kept", "other"}
    /\ characteristic' = cin.characteristic
    /\ blob' = cin.value
    /\ rtn_flags' = cin.rtn_flags
    /\ cop' = "again"
    /\ pc' = "called"
    /\ UNCHANGED <<FLAGS, REQS, CTYPE_FLAG, FIELDS_TO_READ, CTYPE_GLOBAL,
                   REFERENCE_FIELDS, result, cin, cenc, cout>>

RepeatNext ==
    \/ FirstCall
    \/ GetSingleField
    \/ GetFlags
    \/ Select
    \/ Expand
    \/ Unpack
    \/ Keep
    \/ OtherCall
    \/ Repeat
    \/ (cop # "first" /\ Return)

RepeatSpec == Init /\ [][RepeatNext]_vars

----------------------------------------------------------------------------
(* Calls on definitions whose fields have the wider primitive encodings *)

\* a blob has at most MaxWide bytes
MaxWide == 24

WideFormats ==
    {"uint8", "uint16", "uint24", "sint24", "24bit", "uint40", "uint48",
     "uint128", "SFLOAT", "FLOAT"}

\* one Mandatory field per encoding, named like its encoding
WidePool == { PlainField(fm, fm, <<"Mandatory">>) : fm \in WideFormats }

WideSeqs(n) ==
    { s \in [1..n -> WidePool] :
        \A i, j \in 1..n : i # j => s[i].name # s[j].name }

WideCatalog ==
    UNION { { [name |-> "Wide", fields |-> s] : s \in WideSeqs(n) }
            \cup { [name |-> "Wide", fields |-> <<FlagsField>> \o s] :
                   s \in WideSeqs(n) } :
            n \in 1..MaxFields }

\* blobs that begin with the image of a reserved FLOAT or SFLOAT pattern
\* (0x007FFFFF, 0x07FF: NaN), or with an offset byte and such an image, and
\* blobs of zeros
WideStarts ==
    { <<255, 255, 127, 0>>, <<255, 7>>, <<1, 255, 255, 127, 0>>,
      <<1, 255, 7>>, <<0>> }

WideBlobs ==
    { [i \in 1..n |-> IF i <= Len(st) THEN st[i] ELSE 0] :
        n \in 0..MaxWide, st \in WideStarts }

WideCall ==
    /\ pc = "idle"
    /\ \E c \in WideCatalog, b \in WideBlobs, r \in BOOLEAN :
        /\ characteristic' = c
        /\ blob' = b
        /\ rtn_flags' = r
    /\ pc' = "called"
    /\ UNCHANGED <<FLAGS, REQS, CTYPE_FLAG, FIELDS_TO_READ, CTYPE_GLOBAL,
                   REFERENCE_FIELDS, result, codec_vars>>

WideNext ==
    \/ WideCall
    \/ GetSingleField
    \/ GetFlags
    \/ Select
    \/ Expand
    \/ Unpack
    \/ Return

WideSpec == Init /\ [][WideNext]_vars

----------------------------------------------------------------------------
(* Calls on definitions whose References form a cycle.  The steps of a call
   are steps of the running interpreter, so a call that has begun goes on:
   weak fairness of these steps. *)

CycleCatalog ==
    { CharS, CharP, CharQ,
      [name |-> "S", fields |-> <<FlagsField>> \o CharS.fields] }

CycleBlobs == {<<>>, <<0, 1>>, <<1, 2>>, <<1, 2, 1>>, <<3, 1, 2>>}

CycleCall ==
    /\ pc = "idle"
    /\ \E c \in CycleCatalog, b \in CycleBlobs, r \in BOOLEAN :
        /\ characteristic' = c
        /\ blob' = b
        /\ rtn_flags' = r
    /\ pc' = "called"
    /\ UNCHANGED <<FLAGS, REQS, CTYPE_FLAG, FIELDS_TO_READ, CTYPE_GLOBAL,
                   REFERENCE_FIELDS, result, codec_vars>>

CycleNext ==
    \/ CycleCall
    \/ GetFlags
    \/ Select
    \/ Expand
    \/ Unpack
    \/ Return

\* the steps of a call that has begun
CallSteps == GetFlags \/ Select \/ Expand \/ Unpack

CycleSpec == Init /\ [][CycleNext]_vars /\ WF_vars(CallSteps)

----------------------------------------------------------------------------
(* get_char_value for the definitions with a Flags field: Flags with a
   BitField, without one and with an empty one, declared at any position
   among up to MaxFields other fields *)

\* a Flags field of two bytes without BitField
FlagsPlain == PlainField("Flags", "uint16", <<"Mandatory">>)

\* a Flags field whose BitField has no sub-range
FlagsEmpty == [FlagsPlain EXCEPT !.BitField = << <<>> >>]

FlagsVariants == {FlagsField, FlagsPlain, FlagsEmpty}

FlaggedPool == {FieldA, FieldB, FieldD, FieldE}

FlaggedSeqs(n) ==
    { s \in [1..n -> FlaggedPool] :
        \A i, j \in 1..n : i # j => s[i].name # s[j].name }

InsertAt(s, k, f) == SubSeq(s, 1, k) \o <<f>> \o SubSeq(s, k + 1, Len(s))

FlaggedCatalog ==
    UNION { { [name |-> "Test", fields |-> InsertAt(s, k, f)] :
                s \in FlaggedSeqs(n), k \in 0..n, f \in FlagsVariants } :
            n \in 1..MaxFields }

FlaggedCall ==
    /\ pc = "idle"
    /\ \E c \in FlaggedCatalog, b \in ShortBlobs, r \in BOOLEAN :
        /\ characteristic' = c
        /\ blob' = b
        /\ rtn_flags' = r
    /\ pc' = "called"
    /\ UNCHANGED <<FLAGS, REQS, CTYPE_FLAG, FIELDS_TO_READ, CTYPE_GLOBAL,
                   REFERENCE_FIELDS, result, codec_vars>>

FlaggedNext ==
    \/ FlaggedCall
    \/ GetFlags
    \/ Select
    \/ Expand
    \/ Unpack
    \/ Return

FlaggedSpec == Init /\ [][FlaggedNext]_vars

----------------------------------------------------------------------------
(* Inputs of the codec calls *)

\* mantissas are sampled within Window of the points where the code branches
Window == 2

\* an encoder input value has at most MaxDec decimal digits
MaxDec == 1

Near(c) == (c - Window)..(c + Window)

MantissaSamples ==
    Near(0) \cup Near(Pow(2, 23)) \cup Near(-Pow(2, 23))
            \cup Near(Pow(2, 11)) \cup Near(-Pow(2, 11))

PrecisionSamples == {-1, 0, 1, 2, 7, 8, 128, 129}

\* the scaled mantissa stays below 2^30, so that it can be computed
Computable(num, dec, precision) ==
    \/ num = 0
    \/ precision <= dec
    \/ /\ precision - dec <= 8
       /\ Abs(num) <= Pow(2, 30) \div Pow(10, precision - dec)

EncodeInputs ==
    { a \in [value : [num : MantissaSamples, dec : 0..MaxDec],
             precision : PrecisionSamples] :
        Computable(a.value.num, a.value.dec, a.precision) }

ByteEdge == (0..Window) \cup ((255 - Window)..255)

FLOATInputs ==
    { <<b0, b1, b2, b3>> : b0 \in ByteEdge, b1 \in {0, 255},
                           b2 \in {0, 127, 128, 255},
                           b3 \in {0, 1, 127, 128, 255} }

SFLOATInputs ==
    { <<b0, 16 * e + hi>> : b0 \in ByteEdge, hi \in {0, 7, 8, 15},
                            e \in {0, 1, 7, 8, 15} }

----------------------------------------------------------------------------
(* Codec calls *)

CodecInit == Init

EncodeFLOAT ==
    /\ cop = "idle"
    /\ UNCHANGED engine_vars
    /\ \E a \in EncodeInputs :
        /\ cop' = "encode_FLOAT"
        /\ cin' = a
        /\ cenc' = encode_FLOAT_ieee11073(a.value, a.precision)
        /\ cout' = cenc'

DecodeFLOAT ==
    /\ cop = "idle"
    /\ UNCHANGED engine_vars
    /\ \E b \in FLOATInputs :
        /\ cop' = "decode_FLOAT"
        /\ cin' = b
        /\ cenc' = NoCall
        /\ cout' = decode_FLOAT_ieee11073(b)

\* decode_FLOAT_ieee11073(encode_FLOAT_ieee11073(value, precision))
RoundTripFLOAT ==
    /\ cop = "encode_FLOAT"
    /\ cenc.ok
    /\ cop' = "roundtrip_FLOAT"
    /\ cout' = decode_FLOAT_ieee11073(cenc.val)
    /\ UNCHANGED <<cin, cenc, engine_vars>>

EncodeSFLOAT ==
    /\ cop = "idle"
    /\ UNCHANGED engine_vars
    /\ \E a \in EncodeInputs :
        /\ cop' = "encode_SFLOAT"
        /\ cin' = a
        /\ cenc' = encode_SFLOAT_ieee11073(a.value, a.precision)
        /\ cout' = cenc'

DecodeSFLOAT ==
    /\ cop = "idle"
    /\ UNCHANGED engine_vars
    /\ \E b \in SFLOATInputs :
        /\ cop' = "decode_SFLOAT"
        /\ cin' = b
        /\ cenc' = NoCall
        /\ cout' = decode_SFLOAT_ieee11073(b)

\* decode_SFLOAT_ieee11073(encode_SFLOAT_ieee11073(value, precision))
RoundTripSFLOAT ==
    /\ cop = "encode_SFLOAT"
    /\ cenc.ok
    /\ cop' = "roundtrip_SFLOAT"
    /\ cout' = decode_SFLOAT_ieee11073(cenc.val)
    /\ UNCHANGED <<cin, cenc, engine_vars>>

\* the call has returned (or raised); the next call starts afresh
CodecReturn ==
    /\ cop # "idle"
    /\ cop' = "idle"
    /\ cin' = <<>>
    /\ cenc' = NoCall
    /\ cout' = NoCall
    /\ UNCHANGED engine_vars

CodecNext ==
    \/ EncodeFLOAT
    \/ DecodeFLOAT
    \/ RoundTripFLOAT
    \/ EncodeSFLOAT
    \/ DecodeSFLOAT
    \/ RoundTripSFLOAT
    \/ CodecReturn

CodecSpec == CodecInit /\ [][CodecNext]_vars


----------------------------------------------------------------------------
(* Calls of the bit extractor: _autobitmask and _autobitmask_req *)

\* a sub-range starts at bit 0..MaxIndex and has 1..MaxSize bits
MaxIndex == 3

MaxSize == 2

\* every key of a sub-range is mapped to itself / only key 1 is mapped
AllKeys == [k \in 0..(Pow(2, MaxSize) - 1) |-> k]

OneKey == (1 :> 1)

BitInputs ==
    [val        : 0..(Pow(2, MaxIndex + MaxSize + 1) - 1),
     total_size : 0..(MaxIndex + MaxSize + 1),
     index      : 0..MaxIndex,
     size       : 1..MaxSize,
     keymap     : {AllKeys, OneKey}]

AutoBitmask ==
    /\ cop = "idle"
    /\ \E a \in BitInputs :
        /\ cop' = "_autobitmask"
        /\ cin' = a
        /\ cout' = _autobitmask(a.val, a.total_size, a.index, a.size,
                                a.keymap)
    /\ cenc' = NoCall
    /\ UNCHANGED engine_vars

AutoBitmaskReq ==
    /\ cop = "idle"
    /\ \E a \in BitInputs :
        /\ cop' = "_autobitmask_req"
        /\ cin' = a
        /\ cout' = _autobitmask_req(a.val, a.total_size, a.index, a.size,
                                    a.keymap)
    /\ cenc' = NoCall
    /\ UNCHANGED engine_vars

BitReturn ==
    /\ cop \in {"_autobitmask", "_autobitmask_req"}
    /\ cop' = "idle"
    /\ cin' = <<>>
    /\ cenc' = NoCall
    /\ cout' = NoCall
    /\ UNCHANGED engine_vars

BitNext ==
    \/ AutoBitmask
    \/ AutoBitmaskReq
    \/ BitReturn

BitSpec == Init /\ [][BitNext]_vars

----------------------------------------------------------------------------
(* SuperStruct calls: formats of up to MaxTokens characters, buffers of up
   to MaxBuffer bytes *)

MaxTokens == 3
MaxBuffer == 12

SuperTokens == {"B", "H", "2", "F", "S"}

SuperFormats ==
    UNION {[1..n -> SuperTokens] : n \in 1..MaxTokens}

SuperBuffers ==
    UNION {{[i \in 1..n |-> i], [i \in 1..n |-> 255 - i]} : n \in 0..MaxBuffer}

SuperUnpack ==
    /\ cop = "idle"
    /\ \E f \in SuperFormats, b \in SuperBuffers :
        /\ cop' = "unpack"
        /\ cin' = [fmt |-> f, bb |-> b]
        /\ cout' = unpack(f, b)
    /\ cenc' = NoCall
    /\ UNCHANGED engine_vars

SuperCalcsize ==
    /\ cop = "idle"
    /\ \E f \in SuperFormats :
        /\ cop' = "calcsize"
        /\ cin' = [fmt |-> f, bb |-> <<>>]
        /\ cout' = calcsize(f)
    /\ cenc' = NoCall
    /\ UNCHANGED engine_vars

SuperReturn ==
    /\ cop \in {"unpack", "calcsize"}
    /\ cop' = "idle"
    /\ cin' = <<>>
    /\ cenc' = NoCall
    /\ cout' = NoCall
    /\ UNCHANGED engine_vars

SuperNext ==
    \/ SuperUnpack
    \/ SuperCalcsize
    \/ SuperReturn

SuperSpec == Init /\ [][SuperNext]_vars

----------------------------------------------------------------------------
(* Properties of the bit extractor (BitSpec) *)

\* bits index .. index+size-1 of val
SubRange(val, index, size) == (val \div Pow(2, index)) % Pow(2, size)

\* C11: the key that _autobitmask and _autobitmask_req look up is
\* (val & (((1 << size) - 1) << index)) >> index, i.e. bits index ..
\* index+size-1 of val, whatever total_size is passed.
C11_KeyOfSubRange ==
    LET key == SubRange(cin.val, cin.index, cin.size)
    IN  /\ cop = "_autobitmask" =>
              cout = IF key \in DOMAIN cin.keymap THEN Ok(cin.keymap[key])
                     ELSE Raise("KeyError")
        /\ cop = "_autobitmask_req" =>
              cout = IF key \in DOMAIN cin.keymap
                     THEN Ok(<<cin.keymap[key]>>)
                     ELSE Ok(<<>>)

\* bits 1..2 of 0b1011 with a total_size smaller than index + size
C11_Witness ==
    /\ cop = "_autobitmask"
    /\ cin = [val |-> 11, total_size |-> 1, index |-> 1, size |-> 2,
              keymap |-> AllKeys]
    /\ cout = Ok(1)

----------------------------------------------------------------------------
(* Properties of get_char_value (checked under Spec) *)

Range(s) == { s[i] : i \in 1..Len(s) }

MultiField == Len(characteristic.fields) # 1

\* the requirement tags that the Flags value satisfies
SatisfiedTags(reqs) == { t[1] : t \in { v \in Values(reqs) : v # <<>> } }

\* the declared fields other than Flags that the stated rule includes
IncludedNames(fields, tags) ==
    LET included(f) ==
            /\ f.name # "Flags"
            /\ \/ "Mandatory" \in Range(f.Requirement)
               \/ \A t \in Range(f.Requirement) : t \in tags
    IN  RefNames(SelectSeq(fields, included))

\* the result is a mapping with exactly these entries, in this order
Decoded(r, entries) ==
    /\ r.ok
    /\ r.val.kind \in {"dict", "list"}
    /\ r.val.fields = entries

EntryOf(f, raw) == [key |-> f.name, value |-> Entry(f, ScaledValue(raw, f))]

ExampleChar == [name |-> "Test", fields |-> <<FlagsField, FieldA, FieldB>>]

\* C1: with a Flags field that carries a BitField, a field is included if
\* it is Mandatory and otherwise exactly when all its tags are satisfied by
\* the Flags value; Flags = 0x01 followed by A and B decodes to A then B,
\* Flags = 0x00 followed by A decodes to A alone.
C1_FlagsInclusionAndDecode ==
    /\ (pc = "selected" /\ REQS # <<>>) =>
           FIELDS_TO_READ = IncludedNames(characteristic.fields,
                                          SatisfiedTags(REQS[1]))
    /\ (pc = "done" /\ characteristic = ExampleChar /\ blob = <<1, 1, 2>>) =>
           Decoded(result, <<EntryOf(FieldA, 1), EntryOf(FieldB, 2)>>)
    /\ (pc = "done" /\ characteristic = ExampleChar /\ blob = <<0, 1>>) =>
           Decoded(result, <<EntryOf(FieldA, 1)>>)

EmptyRequirement(f) == f.name # "Flags" /\ f.Requirement = <<>>

\* C2 as stated: a field other than Flags whose requirement list is empty
\* is never in the inclusion sequence.
C2_EmptyRequirementExcluded ==
    pc = "selected" =>
        \A f \in Range(characteristic.fields) :
            EmptyRequirement(f) => f.name \notin Range(FIELDS_TO_READ)

\* C2, amended: a field other than Flags whose requirement list is empty
\* is in every inclusion sequence that the selection produces, whatever the
\* Flags value and also without a Flags field.
C2_EmptyRequirementIncluded ==
    pc = "selected" =>
        \A f \in Range(characteristic.fields) :
            EmptyRequirement(f) => f.name \in Range(FIELDS_TO_READ)

\* Flags = 0 satisfies no tag: B is left out, D with its empty list is read
C2_Witness ==
    /\ pc = "selected"
    /\ characteristic.fields = <<FlagsField, FieldB, FieldD>>
    /\ blob = <<0, 1>>
    /\ REQS # <<>>
    /\ SatisfiedTags(REQS[1]) = {}
    /\ FIELDS_TO_READ = <<"D">>

\* the inclusion sequence with every name of a Reference field replaced by
\* the names of the definition it refers to
RECURSIVE Spliced(_, _)
Spliced(names, c) ==
    IF names = <<>> THEN <<>>
    ELSE LET f == FieldOf(c, Head(names))
         IN  (IF f.Reference = <<>> THEN <<Head(names)>>
              ELSE RefNames(Registry[f.Reference[1]].fields))
             \o Spliced(Tail(names), c)

\* the entry of the result carries the metadata of x
AnnotatedWith(entry, x) ==
    /\ entry.Quantity = x.Quantity
    /\ entry.Unit = x.Unit
    /\ entry.Symbol = x.Symbol
    /\ entry.Value # <<>>
    /\ entry.Value[1].dec = ScaledValue(0, x).dec
    /\ entry.Value[1].bin = ScaledValue(0, x).bin

\* C3: an included Reference field R is replaced, at its position, by the
\* fields X1..Xn of the definition it refers to, the other fields keep
\* their order, and a blob of the right size decodes each Xi with the
\* scaling and the Quantity/Unit/Symbol that X declares for it.
C3_ReferenceExpansion ==
    /\ pc = "expanded" =>
           FIELDS_TO_READ =
               Spliced(SelectFields(characteristic, REQS).val, characteristic)
    /\ (/\ pc = "done"
        /\ REFERENCE_FIELDS # <<>>
        /\ Len(blob) = struct_calcsize(CTYPE_GLOBAL)) =>
           /\ result.ok
           /\ result.val.kind \in {"dict", "list"}
           /\ \A x \in Range(CharX.fields) :
                  /\ x.name \in Keys(result.val.fields)
                  /\ AnnotatedWith(DictGet(result.val.fields, x.name), x)

\* the code of an included field: its own definition declares it, or the
\* referenced definition does
CodeOf(name) ==
    LET f == IF name \in Keys(REFERENCE_FIELDS)
             THEN DictGet(REFERENCE_FIELDS, name)
             ELSE FieldOf(characteristic, name)
    IN  IF f.Ctype = <<>> THEN <<>> ELSE f.Ctype[1]

RECURSIVE Codes(_)
Codes(names) ==
    IF names = <<>> THEN <<>> ELSE CodeOf(Head(names)) \o Codes(Tail(names))

FlagsCode == IF Truthy(FLAGS) THEN CTYPE_FLAG[1] ELSE <<>>

\* C4: the composite format is the Flags code followed by the code of each
\* field of the final inclusion sequence, and a successful unpack has one
\* raw value for Flags and exactly one for each field of the sequence.
C4_OneValuePerField ==
    /\ pc = "expanded" => CTYPE_GLOBAL = FlagsCode \o Codes(FIELDS_TO_READ)
    /\ (pc = "done" /\ MultiField /\ FIELDS_TO_READ # <<>> /\ result.ok) =>
           Len(struct_unpack(CTYPE_GLOBAL, blob).val) =
               Len(FIELDS_TO_READ) + (IF Truthy(FLAGS) THEN 1 ELSE 0)

\* the composite format of the call and the length it is compared with
CompositeFormat ==
    IF ~MultiField
    THEN (IF characteristic.fields[1].Ctype = <<>> THEN <<>>
          ELSE characteristic.fields[1].Ctype[1])
    ELSE IF FIELDS_TO_READ = <<>>
    THEN (IF CTYPE_FLAG = <<>> THEN <<>> ELSE CTYPE_FLAG[1])
    ELSE CTYPE_GLOBAL

\* the length of the blob after the pad of the Flags branch
PaddedLen(bb) ==
    IF MultiField /\ Truthy(FLAGS) /\ Len(bb) % 2 = 1 THEN Len(bb) + 1
    ELSE Len(bb)

\* C5: a call whose blob has not the size of the composite format, neither
\* as supplied nor after the pad, fails; it returns nothing.
C5_LengthMismatchFails ==
    (/\ pc = "done"
     /\ characteristic.fields[1].Ctype # <<>>
     /\ Len(blob) # struct_calcsize(CompositeFormat)
     /\ PaddedLen(blob) # struct_calcsize(CompositeFormat)) => ~result.ok

\* the single field of the characteristic, and the value of its entry
OnlyField == characteristic.fields[1]

OnlyValue == result.val.fields[1].value.Value[1]

\* C12: a key without a label is no failure.  A single-field decode of a
\* BitField or of an enumerated field with a blob of the right size
\* completes, an enumerated value without a label is returned as the raw
\* integer, and the Flags decode of a multi-field call raises no KeyError.
C12_EnumerationMissRecovers ==
    /\ (/\ pc = "done"
        /\ ~MultiField
        /\ OnlyField.BitField # <<>> \/ OnlyField.Enumerations # <<>>
        /\ Len(blob) = struct_calcsize(OnlyField.Ctype[1])) =>
           /\ result.ok
           /\ result.val.kind = "dict"
           /\ (/\ OnlyField.BitField = <<>>
               /\ blob[1] \notin DOMAIN OnlyField.Enumerations[1]) =>
                  OnlyValue = ScaledValue(blob[1], PlainField("", "uint8", <<>>))
    /\ (/\ pc = "done"
        /\ MultiField
        /\ "Flags" \in FieldNames(characteristic)
        /\ FLAGS = <<>>
        /\ blob # <<>>) => result.ok

\* the field needs a tag that the Flags value does not supply
Unsatisfied(f, tags) ==
    /\ f.name # "Flags"
    /\ "Mandatory" \notin Range(f.Requirement)
    /\ \E t \in Range(f.Requirement) : t \notin tags

\* C13: a key without an entry in a Requires map yields false; the fields
\* that need the tag are left out, and the call still decodes the selected
\* fields of a blob of the right size.
C13_RequiresMissContinues ==
    /\ (pc = "selected" /\ REQS # <<>>) =>
           \A f \in Range(characteristic.fields) :
               Unsatisfied(f, SatisfiedTags(REQS[1])) =>
                   f.name \notin Range(FIELDS_TO_READ)
    /\ (/\ pc = "done"
        /\ REQS # <<>>
        /\ <<>> \in Values(REQS[1])
        /\ FIELDS_TO_READ # <<>>
        /\ Len(blob) = struct_calcsize(CTYPE_GLOBAL)) =>
           /\ result.ok
           /\ result.val.kind \in {"dict", "list"}

\* the declarations of the fields of the final inclusion sequence: a
\* Reference field gives way to the fields of the definition it refers to
RECURSIVE SplicedFields(_, _)
SplicedFields(names, c) ==
    IF names = <<>> THEN <<>>
    ELSE LET f == FieldOf(c, Head(names))
         IN  (IF f.Reference = <<>> THEN <<f>>
              ELSE Registry[f.Reference[1]].fields)
             \o SplicedFields(Tail(names), c)

\* the raw values that the call has assigned to the names it reads
RawVals ==
    ZipDict(FIELDS_TO_READ,
            LET data == struct_unpack(CTYPE_GLOBAL, blob).val
            IN  IF Truthy(FLAGS) THEN Tail(data) ELSE data,
            <<>>)

\* C14: the Value of a decoded field without BitField is its raw value
\* times Multiplier, 10^DecimalExponent and 2^BinaryExponent, each factor
\* applied if the field declares it: in single-field mode, in both
\* multi-field branches, and for the fields spliced in for a Reference.
C14_ValueIsScaledRaw ==
    /\ (/\ pc = "done"
        /\ ~MultiField
        /\ result.ok
        /\ result.val.kind = "dict"
        /\ OnlyField.BitField = <<>>
        /\ OnlyField.Enumerations = <<>>) =>
           OnlyValue =
               ScaledValue(struct_unpack(OnlyField.Ctype[1], blob).val[1],
                           OnlyField)
    /\ (/\ pc = "done"
        /\ MultiField
        /\ result.ok
        /\ result.val.kind \in {"dict", "list"}) =>
           LET decls == SplicedFields(SelectFields(characteristic, REQS).val,
                                      characteristic)
           IN  \A k \in 1..Len(FIELDS_TO_READ) :
                   decls[k].BitField = <<>> =>
                       DictGet(result.val.fields, FIELDS_TO_READ[k]).Value =
                           <<ScaledValue(DictGet(RawVals, FIELDS_TO_READ[k]),
                                         decls[k])>>

\* the value is a scaled number n * 10^dec * 2^bin
IsScaledNumber(v) == DOMAIN v = {"n", "dec", "bin"}

\* an included field of the definition itself that carries a BitField, with
\* a raw value of which every sub-range has a label
LabelledBitField(f) ==
    /\ f.name # "Flags"
    /\ f.BitField # <<>>
    /\ f.name \in Range(FIELDS_TO_READ)
    /\ f.name \in Keys(RawVals)
    /\ _autoformat(characteristic, DictGet(RawVals, f.name), <<f.name>>).ok

\* C15: in a multi-field decode the Value of an included field with a
\* BitField is the labels of the sub-ranges of its raw integer, also when
\* the field declares a Multiplier or an exponent.
C15_BitFieldFromRaw ==
    (/\ pc = "done"
     /\ MultiField
     /\ FIELDS_TO_READ # <<>>
     /\ Len(blob) = struct_calcsize(CTYPE_GLOBAL)) =>
        \A f \in Range(characteristic.fields) :
            LabelledBitField(f) =>
                /\ result.ok
                /\ result.val.kind \in {"dict", "list"}
                /\ LET v == DictGet(result.val.fields, f.name).Value[1]
                   IN  /\ ~IsScaledNumber(v)
                       /\ v = FirstValue(_autoformat(characteristic,
                                                     DictGet(RawVals, f.name),
                                                     <<f.name>>).val).val

\* the final inclusion sequence of the call: the fields that the stated rule
\* includes, in declared order, with the Reference fields spliced
FinalSequence ==
    Spliced(IncludedNames(characteristic.fields,
                          IF REQS = <<>> THEN {} ELSE SatisfiedTags(REQS[1])),
            characteristic)

ReferenceFieldNames ==
    { f.name : f \in { g \in Range(characteristic.fields) : g.Reference # <<>> } }

\* C17: the result mapping of a successful multi-field decode has one entry
\* per field of the final inclusion sequence, in that order, each with a
\* Value, and no entry for Flags, for an excluded field or for a replaced
\* Reference field.
C17_OneEntryPerField ==
    (/\ pc = "done" /\ MultiField /\ result.ok
     /\ result.val.kind \in {"dict", "list"}) =>
        LET entries == result.val.fields
        IN  /\ Len(entries) = Len(FinalSequence)
            /\ \A i \in 1..Len(entries) :
                /\ i <= Len(FinalSequence) => entries[i].key = FinalSequence[i]
                /\ entries[i].key \in Range(FinalSequence)
                /\ entries[i].key \notin {"Flags"} \cup ReferenceFieldNames
                /\ entries[i].value.Value # <<>>

WithoutFlags ==
    /\ pc \notin {"idle", "called"}
    /\ MultiField
    /\ "Flags" \notin FieldNames(characteristic)

\* C18: in a multi-field definition without Flags the selection works with
\* an empty set of satisfied requirements: it includes the Mandatory fields,
\* excludes the fields whose tags are non-empty and without "Mandatory", and
\* does not fail for want of a requirement set.
C18_SelectionWithoutFlags ==
    WithoutFlags =>
        /\ pc = "done" => result # Raise("AttributeError")
        /\ pc = "selected" =>
            /\ \A f \in Range(characteristic.fields) :
                /\ "Mandatory" \in Range(f.Requirement) =>
                       f.name \in Range(FIELDS_TO_READ)
                /\ (f.Requirement # <<>> /\ "Mandatory" \notin Range(f.Requirement)) =>
                       f.name \notin Range(FIELDS_TO_READ)

\* the call has come to the unpack of the Flags branch
PaddingStepTaken ==
    /\ pc = "done"
    /\ MultiField
    /\ Truthy(FLAGS)
    /\ CTYPE_GLOBAL # <<>>

\* C22: in the Flags branch the padding step before the final unpack does
\* not fail; it hands on the blob as it is when its length is even and with
\* one zero byte in front when it is odd, so that the unpack succeeds or
\* fails by the length of that sequence.  Without Flags and in single-field
\* mode nothing is padded: a blob that is one byte short fails.
C22_PaddingStep ==
    /\ PaddingStepTaken =>
        /\ result # Raise("TypeError")
        /\ LET bb == IF Len(blob) % 2 = 0 THEN blob ELSE <<0>> \o blob
           IN  (Len(bb) # struct_calcsize(CTYPE_GLOBAL)) =
                   (result = Raise("struct.error"))
    /\ (/\ pc = "done"
        /\ ~Truthy(FLAGS)
        /\ CompositeFormat # <<>>
        /\ Len(blob) # struct_calcsize(CompositeFormat)) =>
            (~result.ok \/ result.val.kind = "None")

\* the label of every sub-range of the BitField of f at the integer raw
SubRangeLabels(f, raw) ==
    LET bits == f.BitField[1]
    IN  [i \in 1..Len(bits) |->
            [key   |-> bits[i].name,
             value |-> bits[i].Enumerations[
                           (raw \div Pow(2, bits[i].index))
                               % Pow(2, bits[i].size)]]]

\* C23: a definition of exactly one field is decoded in single-field mode,
\* any other in multi-field mode.  From a blob of the size of its code the
\* one field gets as Value: the labels of all sub-ranges of the raw integer,
\* unscaled, if it has a BitField; else the label of the raw value if its
\* enumeration has one; else the raw value scaled by Multiplier,
\* DecimalExponent and BinaryExponent.
C23_SingleFieldMode ==
    /\ (pc = "done" /\ ~MultiField) => (FIELDS_TO_READ = <<>> /\ FLAGS = <<>>)
    /\ (pc = "done" /\ MultiField /\ result.ok /\ result.val.kind # "None") =>
           FIELDS_TO_READ # <<>>
    /\ (/\ pc = "done"
        /\ ~MultiField
        /\ OnlyField.Ctype # <<>>
        /\ Len(blob) = struct_calcsize(OnlyField.Ctype[1])) =>
           /\ result.ok
           /\ result.val.kind = "dict"
           /\ Keys(result.val.fields) = {OnlyField.name}
           /\ LET raw == LEUnsigned(blob, 0, Len(blob))
              IN  IF OnlyField.BitField # <<>>
                  THEN OnlyValue = SubRangeLabels(OnlyField, raw)
                  ELSE IF /\ OnlyField.Enumerations # <<>>
                          /\ raw \in DOMAIN OnlyField.Enumerations[1]
                  THEN OnlyValue = OnlyField.Enumerations[1][raw]
                  ELSE OnlyValue = ScaledValue(raw, OnlyField)


\* C28: a call that does not fail returns the mapping of the decoded fields,
\* the empty mapping when no field is selected or no field has a primitive
\* code, never an absent value; with rtn_flags it returns the pair of that
\* mapping and the Flags labels, in single-field mode as in both multi-field
\* branches.
C28_ResultShape ==
    (pc = "done" /\ result.ok) =>
        /\ result.val.kind = IF rtn_flags THEN "list" ELSE "dict"
        /\ (\/ MultiField /\ FIELDS_TO_READ = <<>>
            \/ \A f \in Range(characteristic.fields) : f.Ctype = <<>>) =>
               result.val.fields = <<>>

----------------------------------------------------------------------------
(* Properties of the wider encodings (checked under WideSpec) *)

\* the number of bytes that an encoding occupies on the wire
DeclaredWidth(format) ==
    CASE format \in {"uint8"} -> 1
      [] format \in {"uint16", "SFLOAT"} -> 2
      [] format \in {"uint24", "sint24", "24bit"} -> 3
      [] format \in {"FLOAT"} -> 4
      [] format \in {"uint40"} -> 5
      [] format \in {"uint48"} -> 6
      [] format \in {"uint128"} -> 16

RECURSIVE SumWidths(_)
SumWidths(fields) ==
    IF fields = <<>> THEN 0
    ELSE DeclaredWidth(Head(fields).Format[1]) + SumWidths(Tail(fields))

\* the fields that the call reads from the blob, Flags first
FieldsRead ==
    IF ~MultiField THEN characteristic.fields
    ELSE (IF Truthy(FLAGS) THEN <<FieldOf(characteristic, "Flags")>> ELSE <<>>)
         \o [i \in 1..Len(FIELDS_TO_READ) |->
                FieldOf(characteristic, FIELDS_TO_READ[i])]

DeclaredLength == SumWidths(FieldsRead)

\* C19: the blob length that a decode expects is the sum of the declared
\* widths of the Flags field and of the included fields, without padding:
\* a blob of that length is not refused for its length, and a blob that
\* decodes has that length.
C19_BlobLengthIsDeclared ==
    (pc = "done" /\ (MultiField => FIELDS_TO_READ # <<>>)) =>
        /\ Len(blob) = DeclaredLength => result # Raise("struct.error")
        /\ (result.ok /\ result.val.kind # "None") =>
               Len(blob) = DeclaredLength

\* n > 0 as rest * p^count, with rest not a multiple of p
RECURSIVE Strip(_, _, _)
Strip(n, p, count) ==
    IF n % p # 0 THEN [rest |-> n, count |-> count]
    ELSE Strip(n \div p, p, count + 1)

\* the binary32 value that struct code "f" reads from four bytes is the
\* number mantissa * 10^exponent
Binary32Is(bytes, mantissa, exponent) ==
    LET sign == bytes[4] \div 128
        e    == (bytes[4] % 128) * 2 + bytes[3] \div 128
        frac == (bytes[3] % 128) * 65536 + bytes[2] * 256 + bytes[1]
        M    == IF e = 0 THEN frac ELSE Pow(2, 23) + frac
        E    == IF e = 0 THEN -149 ELSE e - 150
    IN  /\ e # 255
        /\ IF M = 0 \/ mantissa = 0 THEN M = 0 /\ mantissa = 0
           ELSE LET m2 == Strip(M, 2, 0)
                    m5 == Strip(m2.rest, 5, 0)
                    d2 == Strip(Abs(mantissa), 2, 0)
                    d5 == Strip(d2.rest, 5, 0)
                IN  /\ (sign = 1) = (mantissa < 0)
                    /\ m5.rest = d5.rest
                    /\ m2.count + E = d2.count + exponent
                    /\ m5.count = d5.count + exponent

\* the value v that the engine has read is what the codec gives
IsCodecValue(v, decoded) ==
    /\ decoded.ok
    /\ IF decoded.val.kind = "label" THEN v = decoded.val
       ELSE /\ v.kind = "float"
            /\ Len(v.bytes) = 4
            /\ Binary32Is(v.bytes, decoded.val.mantissa, decoded.val.exponent)

\* the bytes of the i-th field read, by the declared widths
WireBytes(i) ==
    LET from == SumWidths(SubSeq(FieldsRead, 1, i - 1))
    IN  SubSeq(blob, from + 1, from + DeclaredWidth(FieldsRead[i].Format[1]))

\* C20: a FLOAT or SFLOAT field is decoded with the IEEE-11073 codec: from
\* a blob of the declared length the call returns, as the raw value of the
\* field, decode_FLOAT_ieee11073 (decode_SFLOAT_ieee11073) of its 4 (2)
\* bytes, which is the sentinel label for a reserved pattern.
C20_FloatFieldsUseCodec ==
    (/\ pc = "done" /\ (MultiField => FIELDS_TO_READ # <<>>)
     /\ Len(blob) = DeclaredLength) =>
        \A i \in 1..Len(FieldsRead) :
            FieldsRead[i].Format[1] \in {"FLOAT", "SFLOAT"} =>
                /\ result.ok
                /\ result.val.kind \in {"dict", "list"}
                /\ FieldsRead[i].name \in Keys(result.val.fields)
                /\ IsCodecValue(
                       DictGet(result.val.fields, FieldsRead[i].name).Value[1].n,
                       IF FieldsRead[i].Format[1] = "FLOAT"
                       THEN decode_FLOAT_ieee11073(WireBytes(i))
                       ELSE decode_SFLOAT_ieee11073(WireBytes(i)))

----------------------------------------------------------------------------
(* Properties of cyclic References (checked under CycleSpec) *)

\* a Reference field of char names a definition that has a Reference field
Cyclic(char) ==
    \E f \in Range(char.fields) :
        /\ f.Reference # <<>>
        /\ \E g \in Range(Registry[f.Reference[1]].fields) : g.Reference # <<>>

\* C21, as stated: a call on a definition whose References form a cycle
\* never comes to its end.
C21_CyclicDecodeNeverEnds ==
    (pc # "idle" /\ Cyclic(characteristic)) => pc # "done"

\* C21: a call on a definition whose References form a cycle comes to its
\* end, with a result or an exception: the expansion is one pass, a
\* Reference field found in a referenced definition is spliced in by name
\* and not expanded.
C21_CyclicDecodeEnds ==
    /\ [](pc = "expanded" => FIELDS_TO_READ = FinalSequence)
    /\ (pc = "called") ~> (pc = "done")

\* the call on the self-referencing definition has returned a mapping
C21_Witness ==
    /\ pc = "done"
    /\ characteristic = CharS
    /\ FIELDS_TO_READ = <<"R", "D", "D">>
    /\ result.ok
    /\ result.val.kind = "dict"

----------------------------------------------------------------------------
(* Properties of the Flags field (checked under FlaggedSpec) *)

\* the codes of the fields read, one after the other
RECURSIVE CodesOf(_, _)
CodesOf(char, names) ==
    IF names = <<>> THEN <<>>
    ELSE FieldOf(char, Head(names)).Ctype[1] \o CodesOf(char, Tail(names))

\* C26: when a multi-field definition declares a field named Flags with a
\* primitive code, the composite unpack format starts with that code, with or
\* without sub-ranges in its BitField, and a call that returns values has
\* read the Flags bytes in front of the bytes of the fields it returns.
C26_FlagsComeFirst ==
    (pc \in {"expanded", "done"} /\ CTYPE_GLOBAL # <<>>) =>
        LET code == FieldOf(characteristic, "Flags").Ctype[1]
        IN  /\ Len(CTYPE_GLOBAL) >= Len(code)
            /\ SubSeq(CTYPE_GLOBAL, 1, Len(code)) = code
            /\ (pc = "done" /\ result.ok) =>
                  Len(blob) = struct_calcsize(
                                  code \o CodesOf(characteristic,
                                                  FIELDS_TO_READ))

\* the key of sub-range bit in the integer raw
SubRangeKey(bit, raw) == (raw \div Pow(2, bit.index)) % Pow(2, bit.size)

\* the requirement tags that the sub-ranges of f satisfy at the integer raw
RequiredTags(f, raw) ==
    { bit.Requires[SubRangeKey(bit, raw)] :
        bit \in { b \in Range(f.BitField[1]) :
                    SubRangeKey(b, raw) \in DOMAIN b.Requires } }

\* the call has passed the Flags step with a Flags field that has a BitField
\* and a blob that holds the Flags bytes
FlagsStepPassed ==
    /\ pc \notin {"idle", "called"}
    /\ "Flags" \in FieldNames(characteristic)
    /\ FieldOf(characteristic, "Flags").BitField # <<>>
    /\ Len(blob) >= struct_calcsize(FieldOf(characteristic, "Flags").Ctype[1])

\* C27: the labels of the Flags and the satisfied requirement tags come from
\* the sub-ranges of the field named Flags alone; a BitField on another
\* field, declared before or after Flags, changes neither of them and does
\* not make the Flags step fail.
C27_FlagsFromFlagsOnly ==
    FlagsStepPassed =>
        LET f   == FieldOf(characteristic, "Flags")
            raw == LEUnsigned(blob, 0, struct_calcsize(f.Ctype[1]))
        IN  /\ FLAGS = <<SubRangeLabels(f, raw)>>
            /\ REQS # <<>>
            /\ SatisfiedTags(REQS[1]) = RequiredTags(f, raw)

----------------------------------------------------------------------------
(* Properties of repeated calls (checked under RepeatSpec) *)

\* C16: a decode call leaves the definition it is given as it was before the
\* call, during the call and after it, also when the call fails; the same
\* call made again later, after other decode calls, has the outcome of the
\* first one.
C16_DecodeIsRepeatable ==
    /\ (cop \in {"first", "again"} /\ pc # "idle") => characteristic = cenc
    /\ cop \in {"kept", "other", "again"} => cin.characteristic = cenc
    /\ (cop = "again" /\ pc = "done") => result = cout

\* a call on a definition with a Reference field has been made again
C16_Witness ==
    /\ cop = "again"
    /\ pc = "done"
    /\ characteristic.fields = <<FieldR, FieldD>>
    /\ blob = <<1, 2, 0, 0>>
    /\ result.ok
    /\ result = cout

----------------------------------------------------------------------------
(* Properties of the numeric codec (checked under CodecSpec) *)

\* the w-bit field u read as two's complement
SignExtend(u, w) == IF u >= Pow(2, w - 1) THEN u - Pow(2, w) ELSE u

\* the w-bit two's-complement image of x
TwosComplement(x, w) == IF x < 0 THEN x + Pow(2, w) ELSE x

ReservedCodes(w) ==
    { Pow(2, w - 1) - 2, Pow(2, w - 1) - 1, -Pow(2, w - 1),
      -(Pow(2, w - 1) - 1), -(Pow(2, w - 1) - 2) }

FLOATMantissaField(b) == SignExtend(b[1] + 256 * b[2] + 65536 * b[3], 24)

FLOATExponentField(b) == SignExtend(b[4], 8)

SFLOATWord(b) == b[1] + 256 * b[2]

SFLOATMantissaField(b) == SignExtend(SFLOATWord(b) % 4096, 12)

SFLOATExponentField(b) == SFLOATWord(b) \div 4096

\* C6: for every mantissa m with |m| < 2^23 and every precision p,
\* decode_FLOAT(encode_FLOAT(m / 10^p, p)) is the number m * 10^(-p)
\* (decoded mantissa m, decoded exponent -p), the reserved codes included.
C6_RoundTripFLOAT ==
    (/\ cop = "roundtrip_FLOAT"
     /\ cin.value.dec = cin.precision
     /\ Abs(cin.value.num) < Pow(2, 23))
    => cout = Ok(Num(cin.value.num, -cin.precision))

\* C7: decode_FLOAT and decode_SFLOAT return a sentinel label exactly when
\* the exponent is 0 and the sign-extended mantissa is one of the five
\* reserved codes (w = 24 / w = 12), and a number for every other input.
C7_SentinelExactly ==
    /\ cop = "decode_FLOAT" =>
        /\ cout.ok
        /\ cout.val.kind \in {"label", "number"}
        /\ cout.val.kind = "label" <=>
              (/\ FLOATExponentField(cin) = 0
               /\ FLOATMantissaField(cin) \in ReservedCodes(24))
    /\ cop = "decode_SFLOAT" =>
        /\ cout.ok
        /\ cout.val.kind \in {"label", "number"}
        /\ cout.val.kind = "label" <=>
              (/\ SFLOATExponentField(cin) = 0
               /\ SFLOATMantissaField(cin) \in ReservedCodes(12))

\* a reserved FLOAT pattern was decoded to its label
C7_Witness ==
    /\ cop = "decode_FLOAT"
    /\ cin = <<2, 0, 128, 0>>
    /\ cout = Ok(Label("-INFINITY"))

FLOATBytes(m, precision) ==
    [i \in 1..3 |-> (TwosComplement(m, 24) \div Pow(256, i - 1)) % 256]
    \o <<TwosComplement(-precision, 8)>>

\* C8 as stated: encode_FLOAT fails whenever the scaled mantissa is outside
\* [-2^23, 2^23-1] and otherwise returns exactly 4 bytes, the mantissa as
\* 24-bit two's complement little endian followed by the byte -precision.
C8_AsStated ==
    cop = "encode_FLOAT" =>
        LET m == ScaledMantissa(cin.value, cin.precision)
        IN  IF m < -Pow(2, 23) \/ m > Pow(2, 23) - 1
            THEN ~cout.ok
            ELSE /\ cout.ok
                 /\ Len(cout.val) = 4
                 /\ cout.val = FLOATBytes(m, cin.precision)

\* C8 (amended): encode_FLOAT fails whenever the scaled mantissa is outside
\* [-2^23, 2^23-1] or -precision does not fit a signed byte
\* (precision outside -127..128), and otherwise returns exactly 4 bytes, the
\* mantissa as 24-bit two's complement little endian followed by the signed
\* byte -precision.
C8_EncodeFLOAT ==
    cop = "encode_FLOAT" =>
        LET m == ScaledMantissa(cin.value, cin.precision)
        IN  IF \/ m < -Pow(2, 23) \/ m > Pow(2, 23) - 1
               \/ cin.precision < -127 \/ cin.precision > 128
            THEN ~cout.ok
            ELSE /\ cout.ok
                 /\ Len(cout.val) = 4
                 /\ cout.val = FLOATBytes(m, cin.precision)

\* a negative mantissa was encoded with a non-zero precision
C8_Witness ==
    /\ cop = "encode_FLOAT"
    /\ cin.precision = 1
    /\ ScaledMantissa(cin.value, cin.precision) = -Pow(2, 23)
    /\ cout = Ok(<<0, 0, 128, 255>>)

\* C9: encode_SFLOAT fails for every scaled mantissa that does not fit the
\* 12-bit two's-complement field (>= 2^11 or < -2^11); it never returns
\* bytes whose mantissa field differs from the scaled mantissa.
C9_EncodeSFLOATOverflow ==
    cop = "encode_SFLOAT" =>
        LET m == ScaledMantissa(cin.value, cin.precision)
        IN  /\ (m >= Pow(2, 11) \/ m < -Pow(2, 11)) => ~cout.ok
            /\ cout.ok => SFLOATMantissaField(cout.val) = m

\* C10: for every 2-byte input that is not a sentinel pattern decode_SFLOAT
\* returns mantissa * 10^exponent, mantissa the low 12 bits read as two's
\* complement, exponent the value of the high 4-bit field.
C10_DecodeSFLOATValue ==
    (/\ cop = "decode_SFLOAT"
     /\ ~(/\ SFLOATExponentField(cin) = 0
          /\ SFLOATMantissaField(cin) \in ReservedCodes(12)))
    => /\ cout.ok
       /\ NumEq(cout.val,
                Num(SFLOATMantissaField(cin), SFLOATExponentField(cin)))


\* the input value is m / 10^precision for an integer m: m
IntendedMantissa(a) ==
    IF a.precision >= a.value.dec
    THEN a.value.num * Pow(10, a.precision - a.value.dec)
    ELSE a.value.num \div Pow(10, a.value.dec - a.precision)

\* the inputs C25 is about: exponent p in 0..15, value m / 10^p with
\* -2^11 <= m < 2^11, m not a reserved pattern when p = 0
SFLOATEncodable(a) ==
    /\ a.precision \in 0..15
    /\ a.precision < a.value.dec =>
          a.value.num % Pow(10, a.value.dec - a.precision) = 0
    /\ IntendedMantissa(a) \in (-Pow(2, 11))..(Pow(2, 11) - 1)
    /\ a.precision = 0 =>
          IntendedMantissa(a) \notin DOMAIN special_values_SFLOAT

\* C25: for p in 0..15 and -2^11 <= m < 2^11 (no reserved pattern at p = 0)
\* encode_SFLOAT_ieee11073(m / 10^p, p) succeeds and returns 2 bytes, and
\* decode_SFLOAT_ieee11073 of them has mantissa m and exponent nibble p.
C25_SFLOATRoundTrip ==
    (cop \in {"encode_SFLOAT", "roundtrip_SFLOAT"} /\ SFLOATEncodable(cin)) =>
        /\ cenc.ok
        /\ Len(cenc.val) = 2
        /\ cop = "roundtrip_SFLOAT" =>
              /\ cout.ok
              /\ cout.val.kind = "number"
              /\ cout.val.mantissa = IntendedMantissa(cin)
              /\ cout.val.exponent = -cin.precision

----------------------------------------------------------------------------
(* Properties of SuperStruct (checked under SuperSpec) *)

IsFloatToken(fmt, i) == fmt[i] \in {"F", "S"}

\* the slices of a format, as pairs <<a, b>> of positions in fmt: one per
\* 'F' or 'S', one per maximal run of other characters
SliceTokens(fmt) ==
    {iv \in (1..Len(fmt)) \X (1..Len(fmt)) :
        /\ iv[1] <= iv[2]
        /\ \/ iv[1] = iv[2] /\ IsFloatToken(fmt, iv[1])
           \/ /\ \A i \in iv[1]..iv[2] : ~IsFloatToken(fmt, i)
              /\ iv[1] = 1 \/ IsFloatToken(fmt, iv[1] - 1)
              /\ iv[2] = Len(fmt) \/ IsFloatToken(fmt, iv[2] + 1)}

RunOf(fmt, iv) == SubSeq(fmt, iv[1], iv[2])

\* a composite format: at least one 'F' or 'S', and every run a format of
\* primitive tokens
WellFormedComposite(fmt) ==
    /\ \E i \in DOMAIN fmt : IsFloatToken(fmt, i)
    /\ \A iv \in SliceTokens(fmt) :
          IsFloatToken(fmt, iv[1]) \/ ~BadFormat(RunOf(fmt, iv))

SliceSize(fmt, iv) ==
    IF fmt[iv[1]] = "F" THEN 4
    ELSE IF fmt[iv[1]] = "S" THEN 2
    ELSE struct_calcsize(RunOf(fmt, iv))

RECURSIVE SumSliceSizes(_, _)
SumSliceSizes(fmt, ivs) ==
    IF ivs = {} THEN 0
    ELSE LET iv == CHOOSE x \in ivs : TRUE
         IN  SliceSize(fmt, iv) + SumSliceSizes(fmt, ivs \ {iv})

\* where the slice of iv starts: right after the slices before it
SliceStart(fmt, iv) ==
    SumSliceSizes(fmt, {x \in SliceTokens(fmt) : x[1] < iv[1]})

SliceBytes(fmt, bb, iv) ==
    SubSeq(bb, SliceStart(fmt, iv) + 1,
           SliceStart(fmt, iv) + SliceSize(fmt, iv))

SliceValues(fmt, bb, iv) ==
    IF fmt[iv[1]] = "F"
    THEN <<decode_FLOAT_ieee11073(SliceBytes(fmt, bb, iv)).val>>
    ELSE IF fmt[iv[1]] = "S"
    THEN <<decode_SFLOAT_ieee11073(SliceBytes(fmt, bb, iv)).val>>
    ELSE struct_unpack(RunOf(fmt, iv), SliceBytes(fmt, bb, iv)).val

\* the values of the slices that start at position a or later, in format
\* order
RECURSIVE ValuesFrom(_, _, _)
ValuesFrom(fmt, bb, a) ==
    IF a > Len(fmt) THEN <<>>
    ELSE LET iv == CHOOSE x \in SliceTokens(fmt) : x[1] = a
         IN  SliceValues(fmt, bb, iv) \o ValuesFrom(fmt, bb, iv[2] + 1)

\* C24: for a composite format with at least one 'F' or 'S', unpack returns
\* the values of consecutive slices (4 bytes per 'F', 2 per 'S',
\* struct.calcsize per maximal run of primitive tokens, the run after the
\* last float token included) in format order, calcsize is the sum of the
\* slice sizes, and unpack fails when the buffer length differs from it.
C24_SuperStructSlices ==
    (cop \in {"unpack", "calcsize"} /\ WellFormedComposite(cin.fmt)) =>
        LET total == SumSliceSizes(cin.fmt, SliceTokens(cin.fmt))
        IN  /\ cop = "calcsize" => cout = Ok(total)
            /\ (cop = "unpack" /\ Len(cin.bb) = total) =>
                  cout = Ok(ValuesFrom(cin.fmt, cin.bb, 1))
            /\ (cop = "unpack" /\ Len(cin.bb) # total) => ~cout.ok

C24_Witness ==
    /\ cop = "unpack"
    /\ cin.fmt = <<"B", "F", "H">>
    /\ Len(cin.bb) = 7
    /\ cout.ok
    /\ Len(cout.val) = 3
    /\ cout.val[1] = 1
    /\ cout.val[3] = 1798

============================================================================
